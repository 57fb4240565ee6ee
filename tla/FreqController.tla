---------------------------- MODULE FreqController ----------------------------
(***************************************************************************)
(* One FreqController object and the thread that calls it                  *)
(* (src/src/freq_controller.cc), down to the single sysfs access.          *)
(*                                                                         *)
(* impl is the object's struct Impl.  frame is the call in progress: where *)
(* it stands (pc), its loop index and its local variables; between calls   *)
(* it keeps the last call (op) and the value it returned (ok).  Every      *)
(* sysfs read and write is one step, so a process that is killed, or       *)
(* another process that writes the same nodes, can come between any two.   *)
(***************************************************************************)
EXTENDS SysfsIO, DeviceConfig

CONSTANT CustomId  \* the ids callers pass to SetFrequencyCustomId

ASSUME CustomIdAssumption == CustomId \subseteq Nat

VARIABLES impl, frame

vars == <<g_active_device, sysfs, impl, frame>>

NewImpl == [selected_targets |-> <<>>, selected_tunables |-> <<>>,
            saved_rails |-> <<>>, saved_tunables |-> <<>>]

HasSelection == impl.selected_targets # <<>> \/ impl.selected_tunables # <<>>

clocks_applied == impl.saved_rails # <<>> \/ impl.saved_tunables # <<>>

Enter(pc, op) == [pc |-> pc, op |-> op, i |-> 1, saved_rails |-> <<>>,
                  saved_tunables |-> <<>>, ok |-> TRUE]

Returned(op, result) == [Enter("idle", op) EXCEPT !.ok = result]

Dead == Enter("dead", "none")

Idle == frame.pc = "idle"
Running == frame.pc \notin {"idle", "dead"}

Init ==
  /\ DeviceInit
  /\ SysfsInit
  /\ impl = NewImpl
  /\ frame = Enter("idle", "none")

-------------------------------------------------------------------------------
(* Selecting a device and a profile. *)

SetActiveDevice(device) ==
  /\ ~Running
  /\ \/ ActivateDevice(device)
     \/ FindEntry(device) = 0 /\ UNCHANGED g_active_device
  /\ frame' = [frame EXCEPT !.op = "device", !.ok = FindEntry(device) # 0]
  /\ UNCHANGED <<sysfs, impl>>

SetActiveDeviceByName(soc_name) ==
  /\ ~Running
  /\ \/ ActivateDeviceByName(soc_name)
     \/ FindName(soc_name) = 0 /\ UNCHANGED g_active_device
  /\ frame' = [frame EXCEPT !.op = "device", !.ok = FindName(soc_name) # 0]
  /\ UNCHANGED <<sysfs, impl>>

\* Mutant: a new selection starts from a fresh struct.
SelectFresh(op, table, k) ==
  /\ Idle
  /\ \/ /\ k # 0
        /\ impl' = [NewImpl EXCEPT !.selected_targets = table[k].targets,
                                   !.selected_tunables = table[k].tunables]
     \/ k = 0 /\ UNCHANGED impl
  /\ frame' = Returned(op, k # 0)
  /\ UNCHANGED <<g_active_device, sysfs>>

\* The profile found at index k of the table replaces the selection; when
\* there is none (k = 0) the previous selection stays.
Select(op, table, k) ==
  /\ Idle
  /\ \/ /\ k # 0
        /\ impl' = [impl EXCEPT !.selected_targets = table[k].targets,
                                !.selected_tunables = table[k].tunables]
     \/ k = 0 /\ UNCHANGED impl
  /\ frame' = Returned(op, k # 0)
  /\ UNCHANGED <<g_active_device, sysfs>>

FindMode(mode) == SelectInSeq(GetDeviceConfig.modes, LAMBDA m : m.mode = mode)

FindCustom(id) == SelectInSeq(GetDeviceConfig.custom_profiles, LAMBDA c : c.id = id)

SetFrequencyMode(mode) == Select("mode", GetDeviceConfig.modes, FindMode(mode))

SetFrequencyCustomId(id) == Select("custom", GetDeviceConfig.custom_profiles, FindCustom(id))

\* The queries on the selected profile's tunables.
FindTunable(name) == SelectInSeq(impl.selected_tunables, LAMBDA t : t.name = name)

HasTunable(name) == FindTunable(name) # 0

GetTunable(name, fallback) ==
  IF HasTunable(name) THEN impl.selected_tunables[FindTunable(name)].value ELSE fallback

-------------------------------------------------------------------------------
(* SetClocks, first half: read the current value of everything the profile *)
(* will write.  A failed read returns false with nothing changed.          *)

SetClocks ==
  /\ Idle
  /\ frame' = IF HasSelection THEN Enter("save_min", "set") ELSE Returned("set", FALSE)
  /\ UNCHANGED <<g_active_device, sysfs, impl>>

Local == UNCHANGED <<g_active_device, sysfs, impl>>

\* The loop over seq has an element left.
More(seq) == frame.i \in DOMAIN seq

SelectedTarget == impl.selected_targets[frame.i]
SelectedTunable == impl.selected_tunables[frame.i]

SaveMin ==
  /\ frame.pc = "save_min"
  /\ More(impl.selected_targets)
  /\ LET t == SelectedTarget
         s == [min_path |-> t.min_path, max_path |-> t.max_path,
               prev_min |-> IF WantMin(t) THEN sysfs[t.min_path] ELSE 0,
               prev_max |-> 0, has_min |-> WantMin(t), has_max |-> FALSE]
     IN  frame' = [frame EXCEPT !.pc = "save_max", !.saved_rails = Append(@, s)]
  /\ Local

SaveMax ==
  /\ frame.pc = "save_max"
  /\ LET t == SelectedTarget
         s == [frame.saved_rails[frame.i] EXCEPT
                 !.prev_max = IF WantMax(t) THEN sysfs[t.max_path] ELSE 0,
                 !.has_max = WantMax(t)]
     IN  frame' = [frame EXCEPT !.pc = "save_min", !.i = @ + 1,
                                !.saved_rails = [@ EXCEPT ![frame.i] = s]]
  /\ Local

SaveRailsEnd ==
  /\ frame.pc = "save_min"
  /\ ~More(impl.selected_targets)
  /\ frame' = [frame EXCEPT !.pc = "save_tunable", !.i = 1]
  /\ Local

\* Mutant: the check of the path guards the read only; a tunable without a node is
\* saved all the same.
SaveEveryTunable ==
  /\ frame.pc = "save_tunable"
  /\ More(impl.selected_tunables)
  /\ LET path == SelectedTunable.sysfs_path
         prev == IF PathPresent(path) THEN sysfs[path] ELSE 0
     IN  frame' = [frame EXCEPT !.i = @ + 1,
                                !.saved_tunables =
                                   Append(@, [sysfs_path |-> path, prev_value |-> prev])]
  /\ Local

SaveTunable ==
  /\ frame.pc = "save_tunable"
  /\ More(impl.selected_tunables)
  /\ LET path == SelectedTunable.sysfs_path
         saved == IF PathPresent(path)
                  THEN Append(frame.saved_tunables,
                              [sysfs_path |-> path, prev_value |-> sysfs[path]])
                  ELSE frame.saved_tunables
     IN  frame' = [frame EXCEPT !.i = @ + 1, !.saved_tunables = saved]
  /\ Local

SaveTunablesEnd ==
  /\ frame.pc = "save_tunable"
  /\ ~More(impl.selected_tunables)
  /\ frame' = [frame EXCEPT !.pc = "rail", !.i = 1]
  /\ Local

SaveFails ==
  /\ \/ /\ frame.pc = "save_min"
        /\ More(impl.selected_targets)
        /\ WantMin(SelectedTarget) /\ ReadMayFail(SelectedTarget.min_path)
     \/ /\ frame.pc = "save_max"
        /\ WantMax(SelectedTarget) /\ ReadMayFail(SelectedTarget.max_path)
     \/ /\ frame.pc = "save_tunable"
        /\ More(impl.selected_tunables)
        /\ ReadMayFail(SelectedTunable.sysfs_path)
  /\ frame' = Returned("set", FALSE)
  /\ Local

-------------------------------------------------------------------------------
(* UnsetClocks starts where the second half of SetClocks does: both write  *)
(* a list of rails, then a list of tunables.  SetClocks stops at the first *)
(* failed write and keeps what it saved; UnsetClocks goes on.              *)

UnsetClocks ==
  /\ Idle
  /\ frame' = IF clocks_applied THEN Enter("rail", "unset") ELSE Returned("unset", FALSE)
  /\ Local

\* Mutant: the presence of the wrong side decides over the maximum.
RestoreByMin(s) == [min_path |-> s.min_path, max_path |-> s.max_path,
                    min_khz |-> IF s.has_min THEN s.prev_min ELSE 0,
                    max_khz |-> IF s.has_min THEN s.prev_max ELSE 0]

\* Mutant: the minimum is not restored.
RestoreMax(s) == [min_path |-> s.min_path, max_path |-> s.max_path, min_khz |-> 0,
                  max_khz |-> IF s.has_max THEN s.prev_max ELSE 0]

Restore(s) == [min_path |-> s.min_path, max_path |-> s.max_path,
               min_khz |-> IF s.has_min THEN s.prev_min ELSE 0,
               max_khz |-> IF s.has_max THEN s.prev_max ELSE 0]

Setting == frame.op = "set"

Rails == IF Setting
         THEN impl.selected_targets
         ELSE [j \in DOMAIN impl.saved_rails |-> Restore(impl.saved_rails[j])]

Tunables == IF Setting
            THEN [j \in DOMAIN impl.selected_tunables |->
                    [sysfs_path |-> impl.selected_tunables[j].sysfs_path,
                     value |-> impl.selected_tunables[j].value]]
            ELSE [j \in DOMAIN impl.saved_tunables |->
                    [sysfs_path |-> impl.saved_tunables[j].sysfs_path,
                     value |-> impl.saved_tunables[j].prev_value]]

Rail == Rails[frame.i]

\* Mutant: the loop over the rails does not advance.
SameRail == [frame EXCEPT !.pc = "rail"]

NextRail == [frame EXCEPT !.pc = "rail", !.i = @ + 1]

\* Mutant: the saved tunables are dropped.
CommitRails == [impl EXCEPT !.saved_rails = frame.saved_rails]

Commit == [impl EXCEPT !.saved_rails = frame.saved_rails,
                       !.saved_tunables = frame.saved_tunables]

\* Mutant: a restore, too, stops at the first failure.
WriteNodeOrStop(path, value, next) ==
  /\ \/ /\ WriteSucceeds(path, value)
        /\ frame' = next
        /\ UNCHANGED impl
     \/ /\ WriteFails(path, value)
        /\ Setting
        /\ impl' = Commit
        /\ frame' = Returned("set", FALSE)
     \/ /\ WriteFails(path, value)
        /\ ~Setting
        /\ frame' = [frame EXCEPT !.ok = FALSE, !.pc = "tunable",
                                  !.i = Len(Tunables) + 1]
        /\ UNCHANGED impl
  /\ UNCHANGED g_active_device

\* One WriteSysfsUint64 of the write phase; next is the frame after success.
WriteNode(path, value, next) ==
  /\ \/ /\ WriteSucceeds(path, value)
        /\ frame' = next
        /\ UNCHANGED impl
     \/ /\ WriteFails(path, value)
        /\ Setting
        /\ impl' = Commit
        /\ frame' = Returned("set", FALSE)
     \/ /\ WriteFails(path, value)
        /\ ~Setting
        /\ frame' = [frame EXCEPT !.ok = FALSE, !.i = @ + 1,
                                  !.pc = IF @ = "tunable" THEN "tunable" ELSE "rail"]
        /\ UNCHANGED impl
  /\ UNCHANGED g_active_device

\* Mutant: the comparison is the wrong way round.
MinGoesFirstFlipped(t) ==
  WantMax(t) /\ PathPresent(t.min_path) /\ sysfs[t.min_path] < t.max_khz

\* Mutant: the minimum is not read again: SetClocks has just saved it.
MinGoesFirstCached(t) ==
  WantMax(t) /\ PathPresent(t.min_path)
  /\ t.max_khz < (IF Setting THEN frame.saved_rails[frame.i].prev_min
                             ELSE impl.selected_targets[frame.i].min_khz)

\* ApplyRail picks the order of its two writes.  The minimum goes first only
\* if it was read and lies above the new maximum.
MinGoesFirst(t) ==
  WantMax(t) /\ PathPresent(t.min_path) /\ t.max_khz < sysfs[t.min_path]

ApplyRail ==
  /\ frame.pc = "rail"
  /\ More(Rails)
  /\ \/ /\ ~WantMin(Rail) /\ ~WantMax(Rail)
        /\ frame' = NextRail
     \/ /\ MinGoesFirst(Rail)
        /\ frame' = [frame EXCEPT !.pc = "min_first"]
     \/ /\ WantMax(Rail)
        /\ MinGoesFirst(Rail) => ReadMayFail(Rail.min_path)
        /\ frame' = [frame EXCEPT !.pc = "max_first"]
     \/ /\ WantMin(Rail) /\ ~WantMax(Rail)
        /\ frame' = [frame EXCEPT !.pc = "min_last"]
  /\ Local

\* A target that leaves the minimum alone still lowers it to its maximum here.
WriteMinFirst ==
  /\ frame.pc = "min_first"
  /\ WriteNode(Rail.min_path,
               IF Rail.min_khz # 0 THEN Rail.min_khz ELSE Rail.max_khz,
               [frame EXCEPT !.pc = "max_last"])

WriteMaxLast ==
  /\ frame.pc = "max_last"
  /\ WriteNode(Rail.max_path, Rail.max_khz, NextRail)

\* Mutant: the rail is done once its maximum is written.
WriteMaxOnly ==
  /\ frame.pc = "max_first"
  /\ WriteNode(Rail.max_path, Rail.max_khz, NextRail)

WriteMaxFirst ==
  /\ frame.pc = "max_first"
  /\ WriteNode(Rail.max_path, Rail.max_khz,
               IF WantMin(Rail) THEN [frame EXCEPT !.pc = "min_last"] ELSE NextRail)

WriteMinLast ==
  /\ frame.pc = "min_last"
  /\ WriteNode(Rail.min_path, Rail.min_khz, NextRail)

RailsEnd ==
  /\ frame.pc = "rail"
  /\ ~More(Rails)
  /\ frame' = [frame EXCEPT !.pc = "tunable", !.i = 1]
  /\ Local

WriteTunable ==
  /\ frame.pc = "tunable"
  /\ More(Tunables)
  /\ PathPresent(Tunables[frame.i].sysfs_path)
  /\ WriteNode(Tunables[frame.i].sysfs_path, Tunables[frame.i].value,
               [frame EXCEPT !.i = @ + 1])

SkipTunable ==
  /\ frame.pc = "tunable"
  /\ More(Tunables)
  /\ ~PathPresent(Tunables[frame.i].sysfs_path)
  /\ frame' = [frame EXCEPT !.i = @ + 1]
  /\ Local

WritesEnd == frame.pc = "tunable" /\ ~More(Tunables)

SetReturns ==
  /\ WritesEnd /\ Setting
  /\ impl' = Commit
  /\ frame' = Returned("set", TRUE)
  /\ UNCHANGED <<g_active_device, sysfs>>

UnsetReturns ==
  /\ WritesEnd /\ frame.op = "unset"
  /\ impl' = [impl EXCEPT !.saved_rails = <<>>, !.saved_tunables = <<>>]
  /\ frame' = Returned("unset", frame.ok)
  /\ UNCHANGED <<g_active_device, sysfs>>

-------------------------------------------------------------------------------
(* The object's life.  The destructor restores what is applied; a killed   *)
(* process runs no destructor.  Either way a new object may follow.        *)

Destroy ==
  /\ Idle
  /\ \/ clocks_applied /\ frame' = Enter("rail", "dtor") /\ UNCHANGED impl
     \/ ~clocks_applied /\ frame' = Dead /\ impl' = NewImpl
  /\ UNCHANGED <<g_active_device, sysfs>>

Destroyed ==
  /\ WritesEnd /\ frame.op = "dtor"
  /\ impl' = NewImpl
  /\ frame' = Dead
  /\ UNCHANGED <<g_active_device, sysfs>>

Crash ==
  /\ frame.pc # "dead"
  /\ impl' = NewImpl
  /\ frame' = Dead
  /\ g_active_device' = kDeviceRegistry[1].device
  /\ UNCHANGED sysfs

Construct ==
  /\ frame.pc = "dead"
  /\ frame' = Enter("idle", "none")
  /\ Local

-------------------------------------------------------------------------------
Call ==
  \/ \E device \in Device : SetActiveDevice(device)
  \/ \E soc_name \in SocName : SetActiveDeviceByName(soc_name)
  \/ \E mode \in FrequencyMode : SetFrequencyMode(mode)
  \/ \E id \in CustomId : SetFrequencyCustomId(id)
  \/ SetClocks
  \/ UnsetClocks
  \/ Destroy
  \/ Construct

Save == SaveMin \/ SaveMax \/ SaveRailsEnd \/ SaveTunable \/ SaveTunablesEnd \/ SaveFails

Write ==
  \/ ApplyRail \/ WriteMinFirst \/ WriteMaxLast \/ WriteMaxFirst \/ WriteMinLast
  \/ RailsEnd \/ WriteTunable \/ SkipTunable
  \/ SetReturns \/ UnsetReturns \/ Destroyed

\* The steps a call takes on its own once it has been made.
Step == Save \/ Write

Next == Call \/ Step \/ Crash

Spec == Init /\ [][Next]_vars
===============================================================================
