------------------------ MODULE FreqControllerInv_proofs ------------------------
(***************************************************************************)
(* The types of the controller and that it never aborts, for any tables;   *)
(* then, for well-formed ones, that Inv is inductive and AppliedInv is     *)
(* inductive relative to Inv, and the safety properties of                 *)
(* FreqControllerSafety that follow from them.                             *)
(***************************************************************************)
EXTENDS FreqControllerInv, DeviceConfig_proofs, SequenceTheorems

-------------------------------------------------------------------------------
(* Types and aborts: up to NeverAbortsHolds nothing cites an assumption on *)
(* the tables other than their types.                                      *)

LEMMA ConfigType ==
  ASSUME NeverAborts
  PROVE  /\ FindEntry(g_active_device) \in DOMAIN kDeviceRegistry
         /\ GetDeviceConfig \in Config
BY ActiveConfig DEF NeverAborts

LEMMA FoundMode ==
  ASSUME NEW mode, GetDeviceConfig \in Config, FindMode(mode) # 0
  PROVE  FindMode(mode) \in DOMAIN GetDeviceConfig.modes
<1> DEFINE modes == GetDeviceConfig.modes
           I == {i \in 1..Len(modes) : modes[i].mode = mode}
<1>1. FindMode(mode) = IF I # {} THEN Min(I) ELSE 0
  BY DEF FindMode, SelectInSeq
<1>2. I \subseteq 1..Len(modes) /\ modes \in Seq(ModeProfile)
  BY DEF Config
<1> HIDE DEF I, modes
<1>3. FindMode(mode) \in DOMAIN modes
  BY <1>1, <1>2, SelectedIndex
<1> QED
  BY <1>3 DEF modes

LEMMA FoundCustom ==
  ASSUME NEW id, GetDeviceConfig \in Config, FindCustom(id) # 0
  PROVE  FindCustom(id) \in DOMAIN GetDeviceConfig.custom_profiles
<1> DEFINE profiles == GetDeviceConfig.custom_profiles
           I == {i \in 1..Len(profiles) : profiles[i].id = id}
<1>1. FindCustom(id) = IF I # {} THEN Min(I) ELSE 0
  BY DEF FindCustom, SelectInSeq
<1>2. I \subseteq 1..Len(profiles) /\ profiles \in Seq(CustomProfile)
  BY DEF Config
<1> HIDE DEF I, profiles
<1>3. FindCustom(id) \in DOMAIN profiles
  BY <1>1, <1>2, SelectedIndex
<1> QED
  BY <1>3 DEF profiles

\* A successful lookup puts typed targets and tunables into the selection.
LEMMA SelectTyped ==
  ASSUME NEW op, NEW P, NEW table \in Seq(P), NEW k,
         \A x \in P : x.targets \in Seq(RailTarget) /\ x.tunables \in Seq(Tunable),
         k # 0 => k \in DOMAIN table,
         impl \in ImplType, Select(op, table, k)
  PROVE  impl' \in ImplType
<1>1. CASE k # 0
  <2>1. table[k] \in P
    BY <1>1
  <2> QED
    BY <1>1, <2>1 DEF Select, ImplType
<1>2. CASE k = 0
  BY <1>2 DEF Select
<1> QED
  BY <1>1, <1>2

-------------------------------------------------------------------------------
(* Type correctness. *)

TypeInv == TypeOK /\ NeverAborts /\ Shape

FrameOK ==
  /\ frame \in FrameType
  /\ frame.pc \in SavePc => frame.op = "set"
  /\ frame.pc \in WritePc => frame.op \in {"set", "unset", "dtor"}

LEMMA InitTypes == HInit => TypeInv
<1> SUFFICES ASSUME HInit PROVE TypeInv
  OBVIOUS
<1> USE DEF HInit, Init, DeviceInit, SysfsInit, NewImpl, Enter
<1>1. 1 \in DOMAIN kDeviceRegistry /\ kDeviceRegistry[1] \in DeviceRegistryEntry
  BY RegistryAssumption
<1>2. NeverAborts
  BY <1>1, RegisteredFound DEF NeverAborts, GetDeviceConfigAborts
<1>3. impl \in ImplType /\ frame \in FrameType
  BY DEF ImplType, FrameType
<1>4. g_active_device \in Device /\ sysfs \in [Path -> Nat] /\ baseline \in [Path -> Nat]
  BY <1>1, InitSysfsAssumption DEF DeviceRegistryEntry
<1> QED
  BY <1>2, <1>3, <1>4 DEF TypeInv, TypeOK, Shape, SavePc, WritePc, RailPc

\* The entries the write phase works through.
LEMMA RailTyped ==
  ASSUME TypeOK, More(Rails)
  PROVE  Rail \in RailTarget
<1>1. CASE Setting
  BY <1>1 DEF TypeOK, ImplType, More, Rails, Rail
<1>2. CASE ~Setting
  <2>1. impl.saved_rails[frame.i] \in SavedRail
    BY <1>2 DEF TypeOK, ImplType, More, Rails
  <2> QED
    BY <1>2, <2>1 DEF More, Rails, Rail, Restore, SavedRail, RailTarget
<1> QED
  BY <1>1, <1>2

LEMMA TunableTyped ==
  ASSUME TypeOK, More(Tunables)
  PROVE  /\ Tunables[frame.i].sysfs_path \in Path \cup {NoPath}
         /\ Tunables[frame.i].value \in Nat
<1>1. CASE Setting
  <2> DEFINE u == impl.selected_tunables[frame.i]
  <2>1. frame.i \in DOMAIN impl.selected_tunables
        /\ Tunables[frame.i] = [sysfs_path |-> u.sysfs_path, value |-> u.value]
    BY <1>1 DEF More, Tunables
  <2>2. u \in Tunable
    BY <2>1 DEF TypeOK, ImplType
  <2> QED
    BY <2>1, <2>2 DEF Tunable
<1>2. CASE ~Setting
  <2> DEFINE u == impl.saved_tunables[frame.i]
  <2>1. frame.i \in DOMAIN impl.saved_tunables
        /\ Tunables[frame.i] = [sysfs_path |-> u.sysfs_path, value |-> u.prev_value]
    BY <1>2 DEF More, Tunables
  <2>2. u \in SavedTunable
    BY <2>1 DEF TypeOK, ImplType
  <2> QED
    BY <2>1, <2>2 DEF SavedTunable
<1> QED
  BY <1>1, <1>2

Ops == {"none", "device", "mode", "custom", "set", "unset", "dtor"}

\* The frames that calls are entered and left with.
LEMMA EnterTyped ==
  ASSUME NEW pc \in {"idle", "dead", "save_min", "rail"}, NEW op \in Ops
  PROVE  /\ Enter(pc, op) \in FrameType
         /\ Enter(pc, op).pc = pc /\ Enter(pc, op).op = op
         /\ Enter(pc, op).i = 1 /\ Enter(pc, op).saved_rails = <<>>
<1>1. <<>> \in Seq(SavedRail) /\ <<>> \in Seq(SavedTunable) /\ 1 \in Nat \ {0}
  OBVIOUS
<1>2. pc \in {"idle", "dead"} \cup SavePc \cup WritePc
  BY DEF SavePc, WritePc
<1> QED
  BY <1>1, <1>2 DEF Enter, FrameType, Ops

LEMMA ReturnedTyped ==
  ASSUME NEW op \in Ops, NEW result \in BOOLEAN
  PROVE  /\ Returned(op, result) \in FrameType
         /\ Returned(op, result).pc = "idle" /\ Returned(op, result).op = op
<1>1. Enter("idle", op) \in FrameType /\ Enter("idle", op).pc = "idle"
      /\ Enter("idle", op).op = op
  BY EnterTyped
<1> QED
  BY <1>1 DEF Returned, FrameType

LEMMA CommitTyped ==
  ASSUME frame \in FrameType, impl \in ImplType
  PROVE  Commit \in ImplType
BY DEF Commit, ImplType, FrameType

LEMMA NewImplTyped == NewImpl \in ImplType
BY DEF NewImpl, ImplType

\* A frame that moves to another place of the call.
At(pc, i) == [frame EXCEPT !.pc = pc, !.i = i]

LEMMA AtTyped ==
  ASSUME frame \in FrameType, NEW pc \in SavePc \cup WritePc, NEW i \in Nat \ {0}
  PROVE  /\ At(pc, i) \in FrameType
         /\ At(pc, i).pc = pc /\ At(pc, i).op = frame.op /\ At(pc, i).i = i
         /\ At(pc, i).saved_rails = frame.saved_rails
         /\ At(pc, i).saved_tunables = frame.saved_tunables
         /\ At(pc, i).ok = frame.ok
BY DEF At, FrameType

\* What the two setters of the active device keep.
LEMMA DeviceStepTypes ==
  ASSUME TypeInv,
         \/ \E device \in Device : SetActiveDevice(device)
         \/ \E soc_name \in SocName : SetActiveDeviceByName(soc_name)
  PROVE  /\ g_active_device' \in Device /\ NeverAborts'
         /\ frame' \in FrameType /\ frame'.pc = frame.pc /\ ~Running
         /\ UNCHANGED <<sysfs, impl>>
<1> USE DEF TypeInv, TypeOK, NeverAborts, GetDeviceConfigAborts
<1>1. ASSUME NEW device \in Device, SetActiveDevice(device)
      PROVE  g_active_device' \in Device /\ FindEntry(g_active_device') # 0
  <2>1. (g_active_device' = device /\ FindEntry(device) # 0) \/ UNCHANGED g_active_device
    BY <1>1 DEF SetActiveDevice, ActivateDevice
  <2> QED
    BY <2>1
<1>2. ASSUME NEW soc_name \in SocName, SetActiveDeviceByName(soc_name)
      PROVE  g_active_device' \in Device /\ FindEntry(g_active_device') # 0
  <2>1. CASE FindName(soc_name) = 0
    BY <1>2, <2>1 DEF SetActiveDeviceByName, ActivateDeviceByName
  <2>2. CASE FindName(soc_name) # 0
    <3>1. g_active_device' = kDeviceRegistry[FindName(soc_name)].device
      BY <1>2, <2>2 DEF SetActiveDeviceByName, ActivateDeviceByName
    <3>2. /\ FindName(soc_name) \in DOMAIN kDeviceRegistry
          /\ kDeviceRegistry[FindName(soc_name)].device \in Device
      BY <2>2, FindNameType DEF DeviceRegistryEntry
    <3> QED
      BY <3>1, <3>2, RegisteredFound
  <2> QED
    BY <2>1, <2>2
<1>3. g_active_device' \in Device /\ FindEntry(g_active_device') # 0
  BY <1>1, <1>2
<1>4. \E result \in BOOLEAN :
        /\ frame' = [frame EXCEPT !.op = "device", !.ok = result]
        /\ ~Running /\ UNCHANGED <<sysfs, impl>>
  BY DEF SetActiveDevice, SetActiveDeviceByName
<1>5. frame' \in FrameType /\ frame'.pc = frame.pc
  BY <1>4 DEF FrameType
<1>6. NeverAborts'
  BY <1>3
<1> QED
  BY <1>3, <1>4, <1>5, <1>6

LEMMA SelectStepTypes ==
  ASSUME TypeInv,
         \/ \E mode \in FrequencyMode : SetFrequencyMode(mode)
         \/ \E id \in CustomId : SetFrequencyCustomId(id)
  PROVE  /\ impl' \in ImplType /\ frame' \in FrameType /\ frame'.pc = "idle"
         /\ UNCHANGED <<g_active_device, sysfs>>
<1>1. GetDeviceConfig \in Config /\ impl \in ImplType
  BY ConfigType DEF TypeInv, TypeOK
<1>2. ASSUME NEW mode \in FrequencyMode, SetFrequencyMode(mode)
      PROVE  /\ impl' \in ImplType /\ frame' \in FrameType /\ frame'.pc = "idle"
             /\ UNCHANGED <<g_active_device, sysfs>>
  <2>1. GetDeviceConfig.modes \in Seq(ModeProfile)
    BY <1>1 DEF Config
  <2>2. FindMode(mode) # 0 => FindMode(mode) \in DOMAIN GetDeviceConfig.modes
    BY <1>1, FoundMode
  <2>3. Select("mode", GetDeviceConfig.modes, FindMode(mode))
    BY <1>2 DEF SetFrequencyMode
  <2>4. \A x \in ModeProfile : x.targets \in Seq(RailTarget) /\ x.tunables \in Seq(Tunable)
    BY DEF ModeProfile
  <2>5. impl' \in ImplType
    BY <1>1, <2>1, <2>2, <2>3, <2>4, SelectTyped
  <2> QED
    BY <2>3, <2>5, ReturnedTyped DEF Select, Ops
<1>3. ASSUME NEW id \in CustomId, SetFrequencyCustomId(id)
      PROVE  /\ impl' \in ImplType /\ frame' \in FrameType /\ frame'.pc = "idle"
             /\ UNCHANGED <<g_active_device, sysfs>>
  <2>1. GetDeviceConfig.custom_profiles \in Seq(CustomProfile)
    BY <1>1 DEF Config
  <2>2. FindCustom(id) # 0 => FindCustom(id) \in DOMAIN GetDeviceConfig.custom_profiles
    BY <1>1, FoundCustom
  <2>3. Select("custom", GetDeviceConfig.custom_profiles, FindCustom(id))
    BY <1>3 DEF SetFrequencyCustomId
  <2>4. \A x \in CustomProfile : x.targets \in Seq(RailTarget) /\ x.tunables \in Seq(Tunable)
    BY DEF CustomProfile
  <2>5. impl' \in ImplType
    BY <1>1, <2>1, <2>2, <2>3, <2>4, SelectTyped
  <2> QED
    BY <2>3, <2>5, ReturnedTyped DEF Select, Ops
<1> QED
  BY <1>2, <1>3

LEMMA LifeStepTypes ==
  ASSUME TypeInv, SetClocks \/ UnsetClocks \/ Destroy \/ Construct \/ Crash
  PROVE  /\ g_active_device' \in Device /\ NeverAborts' /\ UNCHANGED sysfs
         /\ impl' \in ImplType /\ FrameOK' /\ Shape'
<1>1. frame' \in {Enter("save_min", "set"), Returned("set", FALSE), Enter("rail", "unset"),
                  Returned("unset", FALSE), Enter("rail", "dtor"), Enter("idle", "none"), Dead}
  BY DEF SetClocks, UnsetClocks, Destroy, Construct, Crash
<1>2. /\ Returned("set", FALSE) \in FrameType /\ Returned("set", FALSE).pc = "idle"
      /\ Returned("unset", FALSE) \in FrameType /\ Returned("unset", FALSE).pc = "idle"
  BY ReturnedTyped DEF Ops
<1>8. \A op \in Ops : /\ Enter("dead", op) \in FrameType /\ Enter("dead", op).pc = "dead"
                      /\ Enter("idle", op) \in FrameType /\ Enter("idle", op).pc = "idle"
  BY EnterTyped
<1>9. \A op \in Ops : /\ Enter("rail", op) \in FrameType /\ Enter("rail", op).pc = "rail"
                      /\ Enter("rail", op).op = op
  BY EnterTyped
<1>10. \A op \in Ops : /\ Enter("save_min", op) \in FrameType
                       /\ Enter("save_min", op).pc = "save_min" /\ Enter("save_min", op).op = op
                       /\ Enter("save_min", op).i = 1
                       /\ Enter("save_min", op).saved_rails = <<>>
  BY EnterTyped
<1>3. /\ frame' \in FrameType
      /\ \/ frame'.pc \in {"idle", "dead"}
         \/ frame'.pc = "rail" /\ frame'.op \in {"unset", "dtor"}
         \/ /\ frame'.pc = "save_min" /\ frame'.op = "set"
            /\ frame'.i = 1 /\ frame'.saved_rails = <<>>
  <2>1. "none" \in Ops /\ "set" \in Ops /\ "unset" \in Ops /\ "dtor" \in Ops
    BY DEF Ops
  <2>2. CASE frame' \in {Returned("set", FALSE), Returned("unset", FALSE)}
    BY <1>2, <2>2
  <2>3. CASE frame' \in {Dead, Enter("idle", "none")}
    BY <1>8, <2>1, <2>3 DEF Dead
  <2>4. CASE frame' \in {Enter("rail", "unset"), Enter("rail", "dtor")}
    BY <1>9, <2>1, <2>4
  <2>5. CASE frame' = Enter("save_min", "set")
    BY <1>10, <2>1, <2>5
  <2> QED  BY <1>1, <2>2, <2>3, <2>4, <2>5
<1>4. impl' \in ImplType /\ (impl' = impl \/ frame'.pc # "save_min")
  BY NewImplTyped, EnterTyped
    DEF TypeInv, TypeOK, SetClocks, UnsetClocks, Destroy, Construct, Crash, Local, Dead, Ops
<1>5. g_active_device' \in Device /\ NeverAborts' /\ UNCHANGED sysfs
  <2>1. g_active_device' \in {g_active_device, kDeviceRegistry[1].device} /\ UNCHANGED sysfs
    BY DEF SetClocks, UnsetClocks, Destroy, Construct, Crash, Local
  <2>2. 1 \in DOMAIN kDeviceRegistry /\ kDeviceRegistry[1].device \in Device
    <3>1. 1 \in DOMAIN kDeviceRegistry /\ kDeviceRegistry[1] \in DeviceRegistryEntry
      BY RegistryAssumption
    <3> QED  BY <3>1 DEF DeviceRegistryEntry
  <2>3. FindEntry(g_active_device') # 0 /\ g_active_device' \in Device
    BY <2>1, <2>2, RegisteredFound DEF TypeInv, TypeOK, NeverAborts, GetDeviceConfigAborts
  <2> QED
    BY <2>1, <2>3 DEF NeverAborts, GetDeviceConfigAborts
<1>6. FrameOK'
  BY <1>3 DEF FrameOK, SavePc, WritePc
<1>7. Shape'
  <2>1. Len(impl'.selected_targets) \in Nat
    BY <1>4 DEF ImplType
  <2> QED
    BY <1>3, <2>1 DEF Shape, RailPc
<1> QED
  BY <1>4, <1>5, <1>6, <1>7

\* Reading the current values.
LEMMA SaveStepTypes ==
  ASSUME TypeInv, Save
  PROVE  UNCHANGED <<g_active_device, sysfs, impl>> /\ FrameOK' /\ Shape'
<1> USE DEF TypeInv
<1>1. /\ UNCHANGED <<g_active_device, sysfs, impl>>
      /\ frame \in FrameType /\ impl \in ImplType /\ sysfs \in [Path -> Nat]
      /\ frame.pc \in SavePc => frame.op = "set"
  BY DEF Save, SaveMin, SaveMax, SaveRailsEnd, SaveTunable, SaveTunablesEnd, SaveFails,
         Local, TypeOK
<1>2. CASE SaveMin
  <2> DEFINE t == SelectedTarget
             s == [min_path |-> t.min_path, max_path |-> t.max_path,
                   prev_min |-> IF WantMin(t) THEN sysfs[t.min_path] ELSE 0,
                   prev_max |-> 0, has_min |-> WantMin(t), has_max |-> FALSE]
  <2>1. t \in RailTarget /\ frame.i <= Len(impl.selected_targets)
    BY <1>1, <1>2 DEF SaveMin, More, SelectedTarget, ImplType, FrameType
  <2>2. s \in SavedRail
    <3>1. (IF WantMin(t) THEN sysfs[t.min_path] ELSE 0) \in Nat
      BY <1>1, <2>1 DEF WantMin, PathPresent, RailTarget
    <3>2. WantMin(t) \in BOOLEAN
      BY DEF WantMin
    <3> HIDE DEF t
    <3> QED  BY <2>1, <3>1, <3>2 DEF RailTarget, SavedRail
  <2>3. frame' = [frame EXCEPT !.pc = "save_max", !.saved_rails = Append(@, s)]
    BY <1>2 DEF SaveMin
  <2> HIDE DEF s
  <2>4. /\ Append(frame.saved_rails, s) \in Seq(SavedRail)
        /\ Len(Append(frame.saved_rails, s)) = Len(frame.saved_rails) + 1
    BY <1>1, <2>2 DEF FrameType
  <2>5. /\ frame' \in FrameType /\ frame'.pc = "save_max" /\ frame'.op = "set"
        /\ frame'.i = frame.i /\ frame'.saved_rails = Append(frame.saved_rails, s)
    BY <1>1, <1>2, <2>3, <2>4 DEF SaveMin, FrameType, SavePc
  <2>6. Len(frame.saved_rails) = frame.i - 1 /\ frame.i \in Nat
    BY <1>1, <1>2 DEF SaveMin, Shape, FrameType
  <2> QED
    BY <1>1, <2>1, <2>4, <2>5, <2>6 DEF FrameOK, Shape, SavePc, WritePc, RailPc
<1>3. CASE SaveMax
  <2> DEFINE t == SelectedTarget
             s == [frame.saved_rails[frame.i] EXCEPT
                     !.prev_max = IF WantMax(t) THEN sysfs[t.max_path] ELSE 0,
                     !.has_max = WantMax(t)]
  <2>1. /\ Len(frame.saved_rails) = frame.i /\ frame.i <= Len(impl.selected_targets)
        /\ frame.i \in DOMAIN frame.saved_rails /\ frame.i \in DOMAIN impl.selected_targets
    BY <1>1, <1>3 DEF SaveMax, Shape, ImplType, FrameType
  <2>2. t \in RailTarget /\ frame.saved_rails[frame.i] \in SavedRail
    BY <1>1, <2>1 DEF SelectedTarget, ImplType, FrameType
  <2>3. s \in SavedRail
    <3>1. (IF WantMax(t) THEN sysfs[t.max_path] ELSE 0) \in Nat
      BY <1>1, <2>2 DEF WantMax, PathPresent, RailTarget
    <3>2. WantMax(t) \in BOOLEAN
      BY DEF WantMax
    <3> HIDE DEF t
    <3> QED  BY <2>2, <3>1, <3>2 DEF SavedRail
  <2>4. frame' = [frame EXCEPT !.pc = "save_min", !.i = @ + 1,
                               !.saved_rails = [@ EXCEPT ![frame.i] = s]]
    BY <1>3 DEF SaveMax
  <2> HIDE DEF s
  <2> DEFINE rails == [frame.saved_rails EXCEPT ![frame.i] = s]
             pc == "save_min"
             i == frame.i + 1
  <2>5. rails \in Seq(SavedRail) /\ Len(rails) = Len(frame.saved_rails)
    <3>1. frame.saved_rails \in Seq(SavedRail)
      BY <1>1 DEF FrameType
    <3> HIDE DEF rails
    <3>2. rails = [frame.saved_rails EXCEPT ![frame.i] = s]
      BY DEF rails
    <3> QED  BY <2>1, <2>3, <3>1, <3>2
  <2>8. frame' = [frame EXCEPT !.pc = pc, !.i = i, !.saved_rails = rails]
    BY <2>4
  <2>9. i \in Nat \ {0} /\ pc \in SavePc
    BY <1>1 DEF FrameType, SavePc
  <2> HIDE DEF rails, pc, i
  <2>10. /\ frame' \in FrameType /\ frame'.pc = pc /\ frame'.op = frame.op
         /\ frame'.i = i /\ frame'.saved_rails = rails
    BY <1>1, <2>5, <2>8, <2>9 DEF FrameType
  <2>6. /\ frame' \in FrameType /\ frame'.pc = "save_min" /\ frame'.op = "set"
        /\ frame'.i = frame.i + 1 /\ Len(frame'.saved_rails) = Len(frame.saved_rails)
    BY <1>1, <1>3, <2>5, <2>10 DEF SaveMax, SavePc, pc, i
  <2>7. frame.i \in Nat /\ Len(impl.selected_targets) \in Nat
    BY <1>1 DEF FrameType, ImplType
  <2> QED
    BY <1>1, <2>1, <2>5, <2>6, <2>7 DEF FrameOK, Shape, SavePc, WritePc, RailPc
<1>4. CASE SaveRailsEnd
  <2>3. frame' = At("save_tunable", 1)
    BY <1>4 DEF SaveRailsEnd, At
  <2>1. /\ frame' \in FrameType /\ frame'.pc = "save_tunable" /\ frame'.op = "set"
        /\ frame'.saved_rails = frame.saved_rails
    BY <1>1, <1>4, <2>3, AtTyped DEF SaveRailsEnd, SavePc
  <2>2. Len(frame.saved_rails) = Len(impl.selected_targets)
    BY <1>1, <1>4 DEF SaveRailsEnd, More, Shape, ImplType, FrameType
  <2> QED
    BY <1>1, <2>1, <2>2 DEF FrameOK, Shape, SavePc, WritePc, RailPc
<1>5. CASE SaveTunable
  <2> DEFINE path == SelectedTunable.sysfs_path
             u == [sysfs_path |-> path, prev_value |-> sysfs[path]]
  <2>1. path \in Path \cup {NoPath}
    <3>1. SelectedTunable \in Tunable
      BY <1>1, <1>5 DEF SaveTunable, More, SelectedTunable, ImplType
    <3> QED  BY <3>1 DEF Tunable
  <2>2. PathPresent(path) => u \in SavedTunable
    <3>1. PathPresent(path) => path \in Path /\ sysfs[path] \in Nat
      BY <1>1, <2>1 DEF PathPresent
    <3> HIDE DEF path
    <3> QED  BY <3>1 DEF SavedTunable
  <2> DEFINE saved == IF PathPresent(path) THEN Append(frame.saved_tunables, u)
                                           ELSE frame.saved_tunables
  <2>3. frame' = [frame EXCEPT !.i = @ + 1, !.saved_tunables = saved]
    BY <1>5 DEF SaveTunable
  <2> HIDE DEF path, u
  <2>6. saved \in Seq(SavedTunable)
    BY <1>1, <2>2 DEF FrameType
  <2> HIDE DEF saved
  <2>4. /\ frame' \in FrameType /\ frame'.pc = "save_tunable" /\ frame'.op = "set"
        /\ frame'.saved_rails = frame.saved_rails
    <3>1. frame.i + 1 \in Nat \ {0}
      BY <1>1 DEF FrameType
    <3> QED  BY <1>1, <1>5, <2>3, <2>6, <3>1 DEF SaveTunable, FrameType, SavePc
  <2>5. Len(frame.saved_rails) = Len(impl.selected_targets)
    BY <1>5 DEF SaveTunable, Shape
  <2> QED
    BY <1>1, <2>4, <2>5 DEF FrameOK, Shape, SavePc, WritePc, RailPc
<1>6. CASE SaveTunablesEnd
  <2>1. frame' = At("rail", 1)
    BY <1>6 DEF SaveTunablesEnd, At
  <2>2. frame' \in FrameType /\ frame'.pc = "rail" /\ frame'.op = "set"
    BY <1>1, <1>6, <2>1, AtTyped DEF SaveTunablesEnd, SavePc, WritePc
  <2> QED
    BY <1>1, <2>2 DEF FrameOK, Shape, SavePc, WritePc, RailPc
<1>7. CASE SaveFails
  <2>1. frame' \in FrameType /\ frame'.pc = "idle"
    BY <1>7, ReturnedTyped DEF SaveFails, Ops
  <2> QED
    BY <1>1, <2>1 DEF FrameOK, Shape, SavePc, WritePc, RailPc
<1> QED
  BY <1>2, <1>3, <1>4, <1>5, <1>6, <1>7 DEF Save

\* Within a call the lists that are written stay what they are.
LEMMA RailsKept ==
  ASSUME UNCHANGED impl, frame'.op = frame.op
  PROVE  Rails' = Rails /\ Tunables' = Tunables /\ (Setting' <=> Setting)
BY DEF Rails, Tunables, Setting

\* One write, with the frame that follows its success.
LEMMA WriteNodeTyped ==
  ASSUME TypeInv, frame.pc \in WritePc,
         NEW path, NEW value \in Nat, NEW next \in FrameType,
         next.op = frame.op, next.pc \in WritePc,
         next.pc \in RailPc => next.i = frame.i /\ More(Rails),
         WriteNode(path, value, next)
  PROVE  /\ g_active_device' = g_active_device /\ sysfs' \in [Path -> Nat]
         /\ impl' \in ImplType /\ FrameOK' /\ Shape'
<1>1. /\ frame \in FrameType /\ impl \in ImplType /\ sysfs \in [Path -> Nat]
      /\ frame.op \in {"set", "unset", "dtor"} /\ g_active_device' = g_active_device
  BY DEF TypeInv, TypeOK, WriteNode
<1>2. CASE WriteSucceeds(path, value) /\ frame' = next /\ UNCHANGED impl
  <2>1. sysfs' \in [Path -> Nat]
    BY <1>1, <1>2 DEF WriteSucceeds
  <2>2. Rails' = Rails
    BY <1>2, RailsKept
  <2> QED
    BY <1>1, <1>2, <2>1, <2>2 DEF FrameOK, Shape, SavePc, WritePc, More
<1>3. CASE WriteFails(path, value) /\ Setting /\ impl' = Commit /\ frame' = Returned("set", FALSE)
  <2>1. frame' \in FrameType /\ frame'.pc = "idle"
    BY <1>3, ReturnedTyped DEF Ops
  <2>2. sysfs' = sysfs
    BY <1>3 DEF WriteFails
  <2>3. Commit \in ImplType
    BY <1>1, CommitTyped
  <2> QED
    BY <1>1, <1>3, <2>1, <2>2, <2>3 DEF FrameOK, Shape, SavePc, WritePc, RailPc
<1>4. CASE /\ WriteFails(path, value) /\ UNCHANGED impl
           /\ frame' = [frame EXCEPT !.ok = FALSE, !.i = @ + 1,
                                     !.pc = IF @ = "tunable" THEN "tunable" ELSE "rail"]
  <2> DEFINE pc == IF frame.pc = "tunable" THEN "tunable" ELSE "rail"
             i == frame.i + 1
  <2>1. frame' = [frame EXCEPT !.ok = FALSE, !.i = i, !.pc = pc]
    BY <1>4
  <2>2. pc \in {"tunable", "rail"} /\ i \in Nat \ {0}
    BY <1>1 DEF FrameType
  <2> HIDE DEF pc, i
  <2>3. frame' \in FrameType /\ frame'.pc = pc /\ frame'.op = frame.op
    BY <1>1, <2>1, <2>2 DEF FrameType, WritePc
  <2>4. sysfs' = sysfs
    BY <1>4 DEF WriteFails
  <2> QED
    BY <1>1, <1>4, <2>2, <2>3, <2>4 DEF FrameOK, Shape, SavePc, WritePc, RailPc
<1> QED
  BY <1>2, <1>3, <1>4 DEF WriteNode

\* The frame after a rail, or after a step in the middle of one.
LEMMA NextRailTyped ==
  ASSUME frame \in FrameType
  PROVE  /\ NextRail \in FrameType /\ NextRail.pc = "rail" /\ NextRail.op = frame.op
         /\ NextRail.i = frame.i + 1 /\ NextRail.ok = frame.ok
         /\ \A pc \in SavePc \cup WritePc :
              LET f == [frame EXCEPT !.pc = pc]
              IN  /\ f \in FrameType /\ f.pc = pc /\ f.op = frame.op
                  /\ f.i = frame.i /\ f.ok = frame.ok
<1>1. frame.i + 1 \in Nat \ {0} /\ frame.i \in Nat \ {0}
  BY DEF FrameType
<1>2. NextRail = At("rail", frame.i + 1)
  BY DEF NextRail, At
<1>3. "rail" \in SavePc \cup WritePc
  BY DEF WritePc
<1>4. ASSUME NEW pc \in SavePc \cup WritePc
      PROVE  LET f == [frame EXCEPT !.pc = pc]
             IN  /\ f \in FrameType /\ f.pc = pc /\ f.op = frame.op
                 /\ f.i = frame.i /\ f.ok = frame.ok
  BY DEF FrameType
<1> QED
  BY <1>1, <1>2, <1>3, <1>4, AtTyped

LEMMA WriteStepTypes ==
  ASSUME TypeInv, Write
  PROVE  /\ g_active_device' = g_active_device /\ sysfs' \in [Path -> Nat]
         /\ impl' \in ImplType /\ FrameOK' /\ Shape'
<1>1. /\ frame \in FrameType /\ impl \in ImplType /\ sysfs \in [Path -> Nat]
      /\ frame.pc \in WritePc => frame.op \in {"set", "unset", "dtor"}
      /\ frame.pc \in RailPc => More(Rails)
  BY DEF TypeInv, TypeOK, Shape
<1>2. /\ "tunable" \in WritePc /\ "rail" \in WritePc /\ "min_first" \in WritePc
      /\ "max_last" \in WritePc /\ "max_first" \in WritePc /\ "min_last" \in WritePc
      /\ "rail" \notin RailPc /\ "tunable" \notin RailPc
  BY DEF WritePc, RailPc
<1>3. /\ NextRail \in FrameType /\ NextRail.pc = "rail" /\ NextRail.op = frame.op
      /\ \A pc \in SavePc \cup WritePc :
           LET f == [frame EXCEPT !.pc = pc]
           IN  /\ f \in FrameType /\ f.pc = pc /\ f.op = frame.op /\ f.i = frame.i
  BY <1>1, NextRailTyped
<1>4. ASSUME Local, frame.pc = "rail", frame' \in FrameType, frame'.op = frame.op,
             frame'.pc \in WritePc,
             frame'.pc \in RailPc => frame'.i = frame.i /\ More(Rails)
      PROVE  /\ g_active_device' = g_active_device /\ sysfs' \in [Path -> Nat]
             /\ impl' \in ImplType /\ FrameOK' /\ Shape'
  <2>1. Rails' = Rails
    BY <1>4, RailsKept DEF Local
  <2> QED
    BY <1>1, <1>2, <1>4, <2>1 DEF Local, FrameOK, Shape, SavePc, WritePc, More
<1>5. CASE ApplyRail
  <2>1. /\ Local /\ frame.pc = "rail" /\ More(Rails)
        /\ \/ frame' = NextRail
           \/ \E pc \in {"min_first", "max_first", "min_last"} : frame' = [frame EXCEPT !.pc = pc]
    BY <1>5 DEF ApplyRail
  <2> QED
    BY <1>2, <1>3, <1>4, <2>1
<1>6. CASE WriteMinFirst \/ WriteMaxLast \/ WriteMaxFirst \/ WriteMinLast
  <2>1. frame.pc \in RailPc /\ frame.pc \in WritePc
    BY <1>6 DEF WriteMinFirst, WriteMaxLast, WriteMaxFirst, WriteMinLast, RailPc, WritePc
  <2>2. Rail.min_khz \in Nat /\ Rail.max_khz \in Nat
    BY <1>1, <2>1, RailTyped DEF TypeInv, RailTarget
  <2>3. \A pc \in {"max_last", "min_last"} : pc \in SavePc \cup WritePc
    BY DEF WritePc
  <2>4. \A next \in {NextRail, [frame EXCEPT !.pc = "max_last"],
                     [frame EXCEPT !.pc = "min_last"]} :
          /\ next \in FrameType /\ next.op = frame.op /\ next.pc \in WritePc
          /\ next.pc \in RailPc => next.i = frame.i /\ More(Rails)
    <3>1. NextRail.pc \in WritePc /\ NextRail.pc \notin RailPc
      BY <1>2, <1>3
    <3>2. \A pc \in {"max_last", "min_last"} :
            LET f == [frame EXCEPT !.pc = pc]
            IN  f \in FrameType /\ f.op = frame.op /\ f.pc \in WritePc /\ f.i = frame.i
      BY <1>2, <1>3, <2>3
    <3> QED  BY <1>1, <1>3, <2>1, <3>1, <3>2
  <2>5. CASE WriteMinFirst
    <3>1. (IF Rail.min_khz # 0 THEN Rail.min_khz ELSE Rail.max_khz) \in Nat
      BY <2>2
    <3> QED  BY <2>1, <2>4, <2>5, <3>1, WriteNodeTyped DEF WriteMinFirst
  <2>6. CASE WriteMaxLast
    BY <2>1, <2>2, <2>4, <2>6, WriteNodeTyped DEF WriteMaxLast
  <2>7. CASE WriteMaxFirst
    <3> DEFINE next == IF WantMin(Rail) THEN [frame EXCEPT !.pc = "min_last"] ELSE NextRail
    <3>1. next \in {NextRail, [frame EXCEPT !.pc = "max_last"],
                    [frame EXCEPT !.pc = "min_last"]}
      OBVIOUS
    <3>2. WriteNode(Rail.max_path, Rail.max_khz, next)
      BY <2>7 DEF WriteMaxFirst
    <3> HIDE DEF next
    <3> QED  BY <2>1, <2>2, <2>4, <3>1, <3>2, WriteNodeTyped
  <2>8. CASE WriteMinLast
    BY <2>1, <2>2, <2>4, <2>8, WriteNodeTyped DEF WriteMinLast
  <2> QED
    BY <1>6, <2>5, <2>6, <2>7, <2>8
<1>7. CASE RailsEnd
  <2>1. Local /\ frame.pc = "rail" /\ frame' = At("tunable", 1)
    BY <1>7 DEF RailsEnd, At
  <2> QED
    BY <1>1, <1>2, <1>4, <2>1, AtTyped
<1>8. CASE WriteTunable
  <2> DEFINE next == [frame EXCEPT !.i = @ + 1]
  <2>1. /\ frame.pc = "tunable" /\ Tunables[frame.i].value \in Nat
        /\ WriteNode(Tunables[frame.i].sysfs_path, Tunables[frame.i].value, next)
    BY <1>8, TunableTyped DEF TypeInv, WriteTunable
  <2>2. next \in FrameType /\ next.op = frame.op /\ next.pc = frame.pc
    <3>1. frame.i + 1 \in Nat \ {0}
      BY <1>1 DEF FrameType
    <3> QED  BY <1>1, <3>1 DEF FrameType
  <2> HIDE DEF next
  <2> QED
    BY <1>2, <2>1, <2>2, WriteNodeTyped
<1>9. CASE SkipTunable
  <2>1. Local /\ frame.pc = "tunable" /\ frame' = [frame EXCEPT !.i = @ + 1]
    BY <1>9 DEF SkipTunable
  <2>2. frame' \in FrameType /\ frame'.op = frame.op /\ frame'.pc = "tunable"
    <3>1. frame.i + 1 \in Nat \ {0}
      BY <1>1 DEF FrameType
    <3> QED  BY <1>1, <2>1, <3>1 DEF FrameType
  <2> QED
    BY <1>1, <1>2, <2>1, <2>2 DEF Local, FrameOK, Shape, SavePc, WritePc, RailPc
<1>10. CASE SetReturns \/ UnsetReturns \/ Destroyed
  <2>1. UNCHANGED <<g_active_device, sysfs>>
    BY <1>10 DEF SetReturns, UnsetReturns, Destroyed
  <2>2. frame' \in FrameType /\ frame'.pc \in {"idle", "dead"}
    <3>1. CASE SetReturns
      BY <3>1, ReturnedTyped DEF SetReturns, Ops
    <3>2. CASE UnsetReturns
      <4>1. frame.ok \in BOOLEAN
        BY <1>1 DEF FrameType
      <4> QED  BY <3>2, <4>1, ReturnedTyped DEF UnsetReturns, Ops
    <3>3. CASE Destroyed
      BY <3>3, EnterTyped DEF Destroyed, Dead, Ops
    <3> QED  BY <1>10, <3>1, <3>2, <3>3
  <2>3. impl' \in ImplType
    <3>1. CASE SetReturns
      BY <1>1, <3>1, CommitTyped DEF SetReturns
    <3>2. CASE UnsetReturns
      <4>1. <<>> \in Seq(SavedRail) /\ <<>> \in Seq(SavedTunable)
        OBVIOUS
      <4> QED  BY <1>1, <3>2, <4>1 DEF UnsetReturns, ImplType
    <3>3. CASE Destroyed
      BY <3>3, NewImplTyped DEF Destroyed
    <3> QED  BY <1>10, <3>1, <3>2, <3>3
  <2> QED
    BY <1>1, <2>1, <2>2, <2>3 DEF FrameOK, Shape, SavePc, WritePc, RailPc
<1> QED
  BY <1>5, <1>6, <1>7, <1>8, <1>9, <1>10 DEF Write

LEMMA NextTypes ==
  ASSUME TypeInv, Next
  PROVE  /\ g_active_device' \in Device /\ NeverAborts' /\ sysfs' \in [Path -> Nat]
         /\ impl' \in ImplType /\ FrameOK' /\ Shape'
<1>1. /\ g_active_device \in Device /\ sysfs \in [Path -> Nat] /\ impl \in ImplType
      /\ NeverAborts
      /\ UNCHANGED g_active_device => NeverAborts'
  BY DEF TypeInv, TypeOK, NeverAborts, GetDeviceConfigAborts
<1>2. CASE \/ \E device \in Device : SetActiveDevice(device)
           \/ \E soc_name \in SocName : SetActiveDeviceByName(soc_name)
  <2>1. /\ g_active_device' \in Device /\ NeverAborts'
        /\ frame' \in FrameType /\ frame'.pc = frame.pc /\ ~Running
        /\ UNCHANGED <<sysfs, impl>>
    BY <1>2, DeviceStepTypes
  <2>2. frame'.pc \in {"idle", "dead"}
    BY <2>1 DEF Running
  <2> QED
    BY <1>1, <2>1, <2>2 DEF FrameOK, Shape, SavePc, WritePc, RailPc
<1>3. CASE \/ \E mode \in FrequencyMode : SetFrequencyMode(mode)
           \/ \E id \in CustomId : SetFrequencyCustomId(id)
  <2>1. /\ impl' \in ImplType /\ frame' \in FrameType /\ frame'.pc = "idle"
        /\ UNCHANGED <<g_active_device, sysfs>>
    BY <1>3, SelectStepTypes
  <2> QED
    BY <1>1, <2>1 DEF FrameOK, Shape, SavePc, WritePc, RailPc
<1>4. CASE SetClocks \/ UnsetClocks \/ Destroy \/ Construct \/ Crash
  BY <1>1, <1>4, LifeStepTypes
<1>5. CASE Save
  BY <1>1, <1>5, SaveStepTypes
<1>6. CASE Write
  BY <1>1, <1>6, WriteStepTypes
<1> QED
  BY <1>2, <1>3, <1>4, <1>5, <1>6 DEF Next, Call, Step

LEMMA StepTypes == TypeInv /\ [HNext]_hvars => TypeInv'
<1> SUFFICES ASSUME TypeInv, [HNext]_hvars PROVE TypeInv'
  OBVIOUS
<1>1. CASE HNext
  <2>1. /\ g_active_device' \in Device /\ NeverAborts' /\ sysfs' \in [Path -> Nat]
        /\ impl' \in ImplType /\ FrameOK' /\ Shape'
    BY <1>1, NextTypes DEF HNext
  <2>2. baseline' \in [Path -> Nat]
    BY <1>1, <2>1 DEF HNext, TypeInv, TypeOK
  <2> QED
    BY <2>1, <2>2 DEF TypeInv, TypeOK, FrameOK
<1>2. CASE UNCHANGED hvars
  BY <1>2 DEF hvars, TypeInv, TypeOK, Shape, NeverAborts, GetDeviceConfigAborts, More,
              Rails, Setting
<1> QED
  BY <1>1, <1>2

\* The types, the loop indices and the registered active device of the code hold
\* together in every reachable state.
THEOREM TypesInvariant == HSpec => []TypeInv
<1> QED
  BY InitTypes, StepTypes, PTL DEF HSpec

\* The types hold in every reachable state, whatever the tables, the content of
\* sysfs and the failures.
THEOREM TypeCorrect == HSpec => []TypeOK
<1>1. TypeInv => TypeOK
  BY DEF TypeInv
<1> QED
  BY <1>1, TypesInvariant, PTL

\* GetDeviceConfig() never aborts, whatever devices are asked for, known or not.
THEOREM NeverAbortsHolds == HSpec => []NeverAborts
<1>1. TypeInv => NeverAborts
  BY DEF TypeInv
<1> QED
  BY <1>1, TypesInvariant, PTL

-------------------------------------------------------------------------------
(* The tables. *)

LEMMA ProfileTyped ==
  ASSUME NEW p \in Profiles
  PROVE  p.targets \in Seq(RailTarget) /\ p.tunables \in Seq(Tunable)
<1>1. PICK k \in DOMAIN kDeviceRegistry :
        \/ \E j \in DOMAIN kDeviceRegistry[k].config.modes :
             p = [targets |-> kDeviceRegistry[k].config.modes[j].targets,
                  tunables |-> kDeviceRegistry[k].config.modes[j].tunables]
        \/ \E j \in DOMAIN kDeviceRegistry[k].config.custom_profiles :
             p = [targets |-> kDeviceRegistry[k].config.custom_profiles[j].targets,
                  tunables |-> kDeviceRegistry[k].config.custom_profiles[j].tunables]
  BY DEF Profiles
<1>2. kDeviceRegistry[k] \in DeviceRegistryEntry
  BY RegistryAssumption
<1>3. kDeviceRegistry[k].config \in Config
  BY <1>2 DEF DeviceRegistryEntry
<1>4. \A j \in DOMAIN kDeviceRegistry[k].config.modes :
        kDeviceRegistry[k].config.modes[j] \in ModeProfile
  BY <1>3 DEF Config
<1>5. \A j \in DOMAIN kDeviceRegistry[k].config.custom_profiles :
        kDeviceRegistry[k].config.custom_profiles[j] \in CustomProfile
  BY <1>3 DEF Config
<1>6. CASE \E j \in DOMAIN kDeviceRegistry[k].config.modes :
             p = [targets |-> kDeviceRegistry[k].config.modes[j].targets,
                  tunables |-> kDeviceRegistry[k].config.modes[j].tunables]
  BY <1>4, <1>6 DEF ModeProfile
<1>7. CASE \E j \in DOMAIN kDeviceRegistry[k].config.custom_profiles :
             p = [targets |-> kDeviceRegistry[k].config.custom_profiles[j].targets,
                  tunables |-> kDeviceRegistry[k].config.custom_profiles[j].tunables]
  BY <1>5, <1>7 DEF CustomProfile
<1> QED
  BY <1>1, <1>6, <1>7

\* The targets of the tables are well formed.
LEMMA TargetWF ==
  ASSUME NEW t \in AllTargets
  PROVE  WF(t)
<1>1. PICK p \in Profiles : \E j \in DOMAIN p.targets : t = p.targets[j]
  BY DEF AllTargets
<1>2. t \in RailTarget
  BY <1>1, ProfileTyped
<1>3. WellFormedTarget(t)
  BY <1>1, TablesWellFormed
<1>4. t.min_path \in TargetPaths /\ t.max_path \in TargetPaths
  BY <1>1 DEF TargetPaths
<1> QED
  BY <1>2, <1>3, <1>4 DEF WF, RailNodes

\* The nodes of tunables are not on rails.
LEMMA TunableApart ==
  ASSUME NEW p \in TunablePaths, p # NoPath
  PROVE  p \notin RailNodes /\ p \notin KernelNodes
BY TablesWellFormed DEF RailNodes

LEMMA KernelNodesOnRails == KernelNodes \subseteq RailNodes
BY KernelRailAssumption, NoPathAssumption DEF KernelNodes, RailNodes

-------------------------------------------------------------------------------
(* One rail. *)

\* A target with both paths is a rail of the kernel with both frequencies.
LEMMA TwoSided ==
  ASSUME NEW t, WF(t), t.min_path # NoPath, t.max_path # NoPath
  PROVE  /\ [min |-> t.min_path, max |-> t.max_path] \in KernelRail
         /\ WantMin(t) /\ WantMax(t)
         /\ t.min_khz <= t.max_khz
         /\ t.min_path # t.max_path
<1>1. [min |-> t.min_path, max |-> t.max_path] \in KernelRail
      /\ 0 < t.min_khz /\ t.min_khz <= t.max_khz
  BY DEF WF, WellFormedTarget
<1>2. t.min_khz \in Nat /\ t.max_khz \in Nat
  BY DEF WF, RailTarget
<1>3. t.min_path # t.max_path
  <2> DEFINE r == [min |-> t.min_path, max |-> t.max_path]
  <2>1. r \in KernelRail /\ r.min = t.min_path /\ r.max = t.max_path
    BY <1>1
  <2> HIDE DEF r
  <2> QED  BY <2>1, KernelRailAssumption
<1> QED
  BY <1>1, <1>2, <1>3 DEF WantMin, WantMax, PathPresent

\* The sides that are written have nodes.
LEMMA WantedNodes ==
  ASSUME NEW t, WF(t)
  PROVE  /\ WantMin(t) => t.min_path \in Path /\ t.min_path \in RailNodes /\ t.min_khz # 0
         /\ WantMax(t) => t.max_path \in Path /\ t.max_path \in RailNodes /\ t.max_khz # 0
         /\ t.min_khz \in Nat /\ t.max_khz \in Nat
BY DEF WF, RailTarget, WantMin, WantMax, PathPresent

\* A target with one path is on no rail of the kernel.
LEMMA OneSided ==
  ASSUME NEW t, WF(t), t.min_path = NoPath \/ t.max_path = NoPath
  PROVE  t.min_path \notin KernelNodes /\ t.max_path \notin KernelNodes
<1>1. CASE [min |-> t.min_path, max |-> t.max_path] \in KernelRail
  <2> DEFINE r == [min |-> t.min_path, max |-> t.max_path]
  <2>1. r \in KernelRail /\ r.min = t.min_path /\ r.max = t.max_path
    BY <1>1
  <2> HIDE DEF r
  <2> QED  BY <2>1, KernelRailAssumption, NoPathAssumption
<1> QED
  BY <1>1 DEF WF, WellFormedTarget

\* A saved rail, made into a target again, has the old target's sides and the
\* values the nodes had.
LEMMA RestoreWF ==
  ASSUME NEW t \in AllTargets, NEW nodes \in [Path -> Nat], Good(nodes)
  PROVE  LET s == Snapshot(t, nodes)
             r == Restore(s)
         IN  /\ WF(r)
             /\ r.min_path = t.min_path /\ r.max_path = t.max_path
             /\ s.min_path = t.min_path /\ s.max_path = t.max_path
             /\ WantMin(r) <=> s.has_min
             /\ WantMax(r) <=> s.has_max
             /\ s.has_min => r.min_khz = nodes[t.min_path] /\ s.prev_min = nodes[t.min_path]
             /\ s.has_max => r.max_khz = nodes[t.max_path] /\ s.prev_max = nodes[t.max_path]
             /\ s.has_min => t.min_path \in Path
             /\ s.has_max => t.max_path \in Path
<1> DEFINE s == Snapshot(t, nodes)
           r == Restore(s)
           lo == IF WantMin(t) THEN nodes[t.min_path] ELSE 0
           hi == IF WantMax(t) THEN nodes[t.max_path] ELSE 0
<1>1. WF(t) /\ t \in RailTarget
  BY TargetWF DEF WF
<1>2. /\ s.min_path = t.min_path /\ s.max_path = t.max_path
      /\ s.has_min = WantMin(t) /\ s.has_max = WantMax(t)
      /\ s.prev_min = lo /\ s.prev_max = hi
  BY DEF Snapshot
<1>3. r = [min_path |-> t.min_path, max_path |-> t.max_path, min_khz |-> lo, max_khz |-> hi]
  BY <1>2 DEF Restore
<1>4. /\ WantMin(t) => t.min_path \in Path /\ nodes[t.min_path] \in Nat /\ nodes[t.min_path] # 0
      /\ WantMax(t) => t.max_path \in Path /\ nodes[t.max_path] \in Nat /\ nodes[t.max_path] # 0
  BY <1>1, WantedNodes DEF Good
<1>5. lo \in Nat /\ hi \in Nat
  BY <1>4
<1>6. r \in RailTarget
  BY <1>1, <1>3, <1>5 DEF RailTarget
<1>7. WellFormedTarget(r)
  <2>1. CASE t.min_path # NoPath /\ t.max_path # NoPath
    <3>1. /\ [min |-> t.min_path, max |-> t.max_path] \in KernelRail
          /\ WantMin(t) /\ WantMax(t)
      BY <1>1, <2>1, TwoSided
    <3>2. nodes[t.min_path] <= nodes[t.max_path]
      <4> DEFINE k == [min |-> t.min_path, max |-> t.max_path]
      <4>1. k \in KernelRail /\ k.min = t.min_path /\ k.max = t.max_path
        BY <3>1
      <4> HIDE DEF k
      <4> QED  BY <4>1 DEF Good, RailsOrdered
    <3> HIDE DEF r
    <3>3. 0 < lo /\ lo <= hi
      BY <1>4, <3>1, <3>2
    <3> QED
      BY <1>3, <3>1, <3>3 DEF WellFormedTarget
  <2>2. CASE t.min_path = NoPath \/ t.max_path = NoPath
    <3>1. t.min_path \notin KernelNodes /\ t.max_path \notin KernelNodes
      BY <1>1, <2>2, OneSided
    <3> HIDE DEF r
    <3> QED
      BY <1>3, <2>2, <3>1 DEF WellFormedTarget
  <2> QED
    BY <2>1, <2>2
<1>8. WF(r) /\ r.min_path = t.min_path /\ r.max_path = t.max_path
      /\ r.min_khz = lo /\ r.max_khz = hi
  <2> HIDE DEF r
  <2> QED  BY <1>1, <1>3, <1>6, <1>7 DEF WF
<1> HIDE DEF r, s
<1>9. (WantMin(r) <=> s.has_min) /\ (WantMax(r) <=> s.has_max)
  BY <1>2, <1>4, <1>8 DEF WantMin, WantMax
<1>10. /\ s.has_min => lo = nodes[t.min_path] /\ t.min_path \in Path
       /\ s.has_max => hi = nodes[t.max_path] /\ t.max_path \in Path
  BY <1>2, <1>4
<1>11. /\ WF(r)
       /\ r.min_path = t.min_path /\ r.max_path = t.max_path
       /\ s.min_path = t.min_path /\ s.max_path = t.max_path
       /\ WantMin(r) <=> s.has_min
       /\ WantMax(r) <=> s.has_max
       /\ s.has_min => r.min_khz = nodes[t.min_path] /\ s.prev_min = nodes[t.min_path]
       /\ s.has_max => r.max_khz = nodes[t.max_path] /\ s.prev_max = nodes[t.max_path]
       /\ s.has_min => t.min_path \in Path
       /\ s.has_max => t.max_path \in Path
  <2> HIDE DEF lo, hi
  <2> QED  BY <1>2, <1>8, <1>9, <1>10
<1> QED
  BY <1>11 DEF r, s

-------------------------------------------------------------------------------
(* The kernel. *)

LEMMA AcceptsMin ==
  ASSUME NEW a, NEW b, NEW v, [min |-> a, max |-> b] \in KernelRail, v <= sysfs[b]
  PROVE  Accepts(a, v)
<1> DEFINE k == [min |-> a, max |-> b]
<1>1. k \in KernelRail /\ k.min = a /\ k.max = b
  OBVIOUS
<1> HIDE DEF k
<1> QED
  BY <1>1, KernelRailAssumption DEF Accepts

LEMMA AcceptsMax ==
  ASSUME NEW a, NEW b, NEW v, [min |-> a, max |-> b] \in KernelRail, sysfs[a] <= v
  PROVE  Accepts(b, v)
<1> DEFINE k == [min |-> a, max |-> b]
<1>1. k \in KernelRail /\ k.min = a /\ k.max = b
  OBVIOUS
<1> HIDE DEF k
<1> QED
  BY <1>1, KernelRailAssumption DEF Accepts

LEMMA AcceptsFree ==
  ASSUME NEW p, NEW v, p \notin KernelNodes
  PROVE  Accepts(p, v)
BY DEF Accepts, KernelNodes

\* What the kernel takes keeps the nodes good.
LEMMA WriteGood ==
  ASSUME sysfs \in [Path -> Nat], Good(sysfs), NEW p \in Path, NEW v \in Nat,
         p \in RailNodes => v # 0, WriteSucceeds(p, v)
  PROVE  Good(sysfs)'
<1>1. sysfs' = [sysfs EXCEPT ![p] = v] /\ Accepts(p, v)
  BY DEF WriteSucceeds
<1>2. ASSUME NEW r \in KernelRail
      PROVE  sysfs'[r.min] <= sysfs'[r.max]
  <2>1. r.min \in Path /\ r.max \in Path /\ r.min # r.max /\ sysfs[r.min] <= sysfs[r.max]
    BY KernelRailAssumption DEF Good, RailsOrdered
  <2>2. (r.min = p => v <= sysfs[r.max]) /\ (r.max = p => sysfs[r.min] <= v)
    BY <1>1 DEF Accepts
  <2> QED
    BY <1>1, <2>1, <2>2
<1>3. ASSUME NEW q \in RailNodes
      PROVE  sysfs'[q] # 0
  BY <1>1 DEF Good
<1> QED
  BY <1>2, <1>3 DEF Good, RailsOrdered

LEMMA FaultyRail ==
  ASSUME NEW a, NEW b, [min |-> a, max |-> b] \in KernelRail, a \in Faulty \/ b \in Faulty
  PROVE  a \notin Healthy /\ b \notin Healthy
<1> DEFINE k == [min |-> a, max |-> b]
<1>1. k \in KernelRail /\ k.min = a /\ k.max = b
  OBVIOUS
<1> HIDE DEF k
<1> QED
  BY <1>1 DEF Healthy

-------------------------------------------------------------------------------
(* What the invariant says of the rails a call works through. *)

LEMMA InvTypes ==
  ASSUME Inv
  PROVE  /\ TypeInv
         /\ frame \in FrameType /\ impl \in ImplType
         /\ sysfs \in [Path -> Nat] /\ baseline \in [Path -> Nat]
         /\ frame.i \in Nat \ {0} /\ frame.ok \in BOOLEAN
         /\ Good(sysfs) /\ Good(baseline)
BY DEF Inv, TypeInv, TypeOK, FrameType

LEMMA OwnerIsImpl ==
  ASSUME frame.pc \notin WritePc \/ ~Setting
  PROVE  Owner = impl
BY DEF Owner

LEMMA RestoredRail ==
  ASSUME Inv, ~Setting, NEW j \in DOMAIN impl.saved_rails
  PROVE  LET s == impl.saved_rails[j]
         IN  /\ j \in DOMAIN Rails /\ WF(Rails[j])
             /\ Rails[j].min_path = s.min_path /\ Rails[j].max_path = s.max_path
             /\ WantMin(Rails[j]) <=> s.has_min
             /\ WantMax(Rails[j]) <=> s.has_max
             /\ s.has_min => Rails[j].min_khz = baseline[s.min_path]
             /\ s.has_max => Rails[j].max_khz = baseline[s.max_path]
<1> DEFINE s == impl.saved_rails[j]
<1>1. PICK t \in AllTargets : s = Snapshot(t, baseline)
  BY OwnerIsImpl DEF Inv, OwnerOK
<1>2. j \in DOMAIN Rails /\ Rails[j] = Restore(s)
  BY DEF Rails
<1>3. LET u == Snapshot(t, baseline)
          r == Restore(u)
      IN  /\ WF(r)
          /\ r.min_path = t.min_path /\ r.max_path = t.max_path
          /\ u.min_path = t.min_path /\ u.max_path = t.max_path
          /\ WantMin(r) <=> u.has_min
          /\ WantMax(r) <=> u.has_max
          /\ u.has_min => r.min_khz = baseline[t.min_path]
          /\ u.has_max => r.max_khz = baseline[t.max_path]
  BY InvTypes, RestoreWF
<1> HIDE DEF s
<1>4. /\ j \in DOMAIN Rails /\ WF(Rails[j])
      /\ Rails[j].min_path = s.min_path /\ Rails[j].max_path = s.max_path
      /\ WantMin(Rails[j]) <=> s.has_min
      /\ WantMax(Rails[j]) <=> s.has_max
      /\ s.has_min => Rails[j].min_khz = baseline[s.min_path]
      /\ s.has_max => Rails[j].max_khz = baseline[s.max_path]
  BY <1>1, <1>2, <1>3
<1> QED
  BY <1>4 DEF s

LEMMA RailsWF ==
  ASSUME Inv, NEW j \in DOMAIN Rails
  PROVE  WF(Rails[j])
<1>1. CASE Setting
  BY <1>1, TargetWF DEF Inv, SelectionOK, Rails
<1>2. CASE ~Setting
  <2>1. j \in DOMAIN impl.saved_rails
    BY <1>2 DEF Rails
  <2> QED
    BY <1>2, <2>1, RestoredRail
<1> QED
  BY <1>1, <1>2

\* In the middle of a rail: the call's rail is well formed.
LEMMA CurrentRail ==
  ASSUME Inv, frame.pc \in RailPc \/ (frame.pc = "rail" /\ More(Rails))
  PROVE  /\ frame.i \in DOMAIN Rails /\ Rail = Rails[frame.i] /\ WF(Rail)
         /\ Rail.min_khz \in Nat /\ Rail.max_khz \in Nat
<1>1. frame.i \in DOMAIN Rails
  BY DEF Inv, Shape, More
<1>2. WF(Rails[frame.i])
  BY <1>1, RailsWF
<1> QED
  BY <1>1, <1>2, WantedNodes DEF Rail

\* The minimum goes first only on a rail with two sides, and is then written.
LEMMA MinFirstRail ==
  ASSUME NEW t, WF(t), MinGoesFirst(t)
  PROVE  /\ [min |-> t.min_path, max |-> t.max_path] \in KernelRail
         /\ WantMin(t) /\ WantMax(t) /\ t.min_khz <= t.max_khz
         /\ t.min_path # t.max_path /\ t.min_khz # 0
         /\ t.max_khz < sysfs[t.min_path]
<1>1. t.min_path # NoPath /\ t.max_path # NoPath
  BY DEF MinGoesFirst, WantMax, PathPresent
<1> QED
  BY <1>1, TwoSided DEF MinGoesFirst, WantMin

\* The order of the two writes of a well-formed rail: each is one the kernel takes.
LEMMA RailAccepted ==
  ASSUME WF(Rail), MidRail, sysfs \in [Path -> Nat], RailsOrdered(sysfs), frame.pc \in RailPc
  PROVE  \/ Accepts(PendingWrite[1], PendingWrite[2])
         \/ frame.pc = "max_first" /\ ReadMayFail(Rail.min_path)
<1>1. Rail.min_khz \in Nat /\ Rail.max_khz \in Nat
  BY WantedNodes
<1>2. CASE frame.pc = "min_first"
  <2>1. MinGoesFirst(Rail)
    BY <1>2 DEF MidRail
  <2>2. /\ [min |-> Rail.min_path, max |-> Rail.max_path] \in KernelRail
        /\ Rail.min_khz <= Rail.max_khz /\ Rail.min_khz # 0
        /\ Rail.max_khz < sysfs[Rail.min_path]
    BY <1>1, <2>1, MinFirstRail
  <2>3. sysfs[Rail.min_path] <= sysfs[Rail.max_path]
        /\ sysfs[Rail.min_path] \in Nat /\ sysfs[Rail.max_path] \in Nat
    <3> DEFINE k == [min |-> Rail.min_path, max |-> Rail.max_path]
    <3>1. k \in KernelRail /\ k.min = Rail.min_path /\ k.max = Rail.max_path
      BY <2>2
    <3> HIDE DEF k
    <3> QED  BY <1>1, <3>1, KernelRailAssumption DEF RailsOrdered
  <2>4. Accepts(Rail.min_path, Rail.min_khz)
    BY <1>1, <2>2, <2>3, AcceptsMin
  <2> QED
    BY <1>2, <2>2, <2>4 DEF PendingWrite
<1>3. CASE frame.pc = "max_last"
  <2>1. WantMin(Rail) /\ WantMax(Rail) /\ sysfs[Rail.min_path] = Rail.min_khz
    BY <1>3 DEF MidRail
  <2>2. [min |-> Rail.min_path, max |-> Rail.max_path] \in KernelRail
        /\ Rail.min_khz <= Rail.max_khz
    BY <1>1, <2>1, TwoSided DEF WantMin, WantMax, PathPresent
  <2>3. Accepts(Rail.max_path, Rail.max_khz)
    BY <2>1, <2>2, AcceptsMax
  <2> QED
    BY <1>3, <2>3 DEF PendingWrite
<1>4. CASE frame.pc = "max_first"
  <2>1. WantMax(Rail) /\ (MinGoesFirst(Rail) => ReadMayFail(Rail.min_path))
    BY <1>4 DEF MidRail
  <2>2. CASE Rail.min_path = NoPath
    <3>1. Accepts(Rail.max_path, Rail.max_khz)
      BY <1>1, <2>2, OneSided, AcceptsFree
    <3> QED
      BY <1>4, <3>1 DEF PendingWrite
  <2>3. CASE Rail.min_path # NoPath /\ ~MinGoesFirst(Rail)
    <3>1. [min |-> Rail.min_path, max |-> Rail.max_path] \in KernelRail
          /\ Rail.min_path \in Path
      BY <1>1, <2>1, <2>3, TwoSided, WantedNodes DEF WantMax, PathPresent
    <3>2. sysfs[Rail.min_path] <= Rail.max_khz
      BY <1>1, <2>1, <2>3, <3>1 DEF MinGoesFirst, PathPresent
    <3>3. Accepts(Rail.max_path, Rail.max_khz)
      BY <3>1, <3>2, AcceptsMax
    <3> QED
      BY <1>4, <3>3 DEF PendingWrite
  <2> QED
    BY <1>4, <2>1, <2>2, <2>3
<1>5. CASE frame.pc = "min_last"
  <2>1. WantMin(Rail) /\ (WantMax(Rail) => sysfs[Rail.max_path] = Rail.max_khz)
    BY <1>5 DEF MidRail
  <2>2. CASE Rail.max_path = NoPath
    <3>1. Accepts(Rail.min_path, Rail.min_khz)
      BY <1>1, <2>2, OneSided, AcceptsFree
    <3> QED
      BY <1>5, <3>1 DEF PendingWrite
  <2>3. CASE Rail.max_path # NoPath
    <3>1. /\ [min |-> Rail.min_path, max |-> Rail.max_path] \in KernelRail
          /\ WantMax(Rail) /\ Rail.min_khz <= Rail.max_khz
      BY <1>1, <2>1, <2>3, TwoSided DEF WantMin, PathPresent
    <3>2. Accepts(Rail.min_path, Rail.min_khz)
      BY <2>1, <3>1, AcceptsMin
    <3> QED
      BY <1>5, <3>2 DEF PendingWrite
  <2> QED
    BY <2>2, <2>3
<1> QED
  BY <1>2, <1>3, <1>4, <1>5 DEF RailPc

LEMMA OrderedWrites ==
  ASSUME Inv, frame.pc \in RailPc
  PROVE  \/ Accepts(PendingWrite[1], PendingWrite[2])
         \/ frame.pc = "max_first" /\ ReadMayFail(Rail.min_path)
<1>1. WF(Rail) /\ MidRail /\ sysfs \in [Path -> Nat] /\ RailsOrdered(sysfs)
  BY CurrentRail, InvTypes DEF Inv, Good
<1> QED
  BY <1>1, RailAccepted

LEMMA InvOrdered == Inv => WritesOrdered
BY OrderedWrites, InvTypes DEF WritesOrdered, Good, RailPc

-------------------------------------------------------------------------------
(* The other properties that follow. *)

LEMMA InvRecoverable == Inv => Recoverable
<1> SUFFICES ASSUME Inv, NEW p \in Path, sysfs[p] # baseline[p]
             PROVE  SavedAs(p, baseline[p])
  BY DEF Recoverable
<1>1. SavedPath(p)
  BY DEF Inv, Covered
<1>2. CASE \E j \in DOMAIN Owner.saved_rails :
             LET s == Owner.saved_rails[j]
             IN  (s.has_min /\ s.min_path = p) \/ (s.has_max /\ s.max_path = p)
  <2>1. PICK j \in DOMAIN Owner.saved_rails :
          LET s == Owner.saved_rails[j]
          IN  (s.has_min /\ s.min_path = p) \/ (s.has_max /\ s.max_path = p)
    BY <1>2
  <2>2. PICK t \in AllTargets : Owner.saved_rails[j] = Snapshot(t, baseline)
    BY DEF Inv, OwnerOK
  <2>3. LET s == Owner.saved_rails[j]
        IN  /\ s.has_min => s.prev_min = baseline[s.min_path]
            /\ s.has_max => s.prev_max = baseline[s.max_path]
    BY <2>2 DEF Snapshot
  <2> QED
    BY <2>1, <2>3 DEF SavedAs
<1>3. CASE \E j \in DOMAIN Owner.saved_tunables : Owner.saved_tunables[j].sysfs_path = p
  <2>1. PICK j \in DOMAIN Owner.saved_tunables : Owner.saved_tunables[j].sysfs_path = p
    BY <1>3
  <2>2. Owner.saved_tunables[j] \in SavedTunable
    BY InvTypes DEF Owner, ImplType, FrameType
  <2>3. Owner.saved_tunables[j].prev_value = baseline[p]
    BY <2>1 DEF Inv, OwnerOK, SavedTunableOK
  <2>4. Owner.saved_tunables[j] = [sysfs_path |-> p, prev_value |-> baseline[p]]
    BY <2>1, <2>2, <2>3 DEF SavedTunable
  <2> QED
    BY <2>4 DEF SavedAs
<1> QED
  BY <1>1, <1>2, <1>3 DEF SavedPath

\* When a restore has been through its lists, every node is back unless a failure
\* explains it.
LEMMA AllBack ==
  ASSUME Inv, WritesEnd, ~Setting, NEW p \in Path
  PROVE  Back(p)
<1>1. /\ frame.pc = "tunable" /\ frame.pc \in WritePc /\ Owner = impl
      /\ \A j \in DOMAIN impl.saved_rails : RailBack(j)
      /\ \A j \in DOMAIN impl.saved_tunables :
           j < frame.i => Back(impl.saved_tunables[j].sysfs_path)
  BY OwnerIsImpl DEF Inv, Restoring, WritesEnd, WritePc
<1>2. \A j \in DOMAIN impl.saved_tunables : j < frame.i
  <2>1. DOMAIN Tunables = DOMAIN impl.saved_tunables /\ frame.i \notin DOMAIN Tunables
    BY DEF Tunables, WritesEnd, More
  <2>2. impl.saved_tunables \in Seq(SavedTunable) /\ frame.i \in Nat \ {0}
    BY InvTypes DEF ImplType
  <2> QED
    BY <2>1, <2>2
<1>3. CASE sysfs[p] # baseline[p]
  <2>1. SavedPath(p)
    BY <1>3 DEF Inv, Covered
  <2>2. CASE \E j \in DOMAIN impl.saved_rails :
               LET s == impl.saved_rails[j]
               IN  (s.has_min /\ s.min_path = p) \/ (s.has_max /\ s.max_path = p)
    BY <1>1, <2>2 DEF RailBack
  <2>3. CASE \E j \in DOMAIN impl.saved_tunables : impl.saved_tunables[j].sysfs_path = p
    BY <1>1, <1>2, <2>3
  <2> QED
    BY <1>1, <2>1, <2>2, <2>3 DEF SavedPath
<1> QED
  BY <1>3 DEF Back

LEMMA InvRestoreExact == Inv => RestoreExact
<1> SUFFICES ASSUME Inv, WritesEnd, ~Setting, frame.ok
             PROVE  sysfs = baseline
  BY DEF RestoreExact
<1>1. \A p \in Path : sysfs[p] = baseline[p]
  BY AllBack DEF Back
<1> QED
  BY <1>1, InvTypes

LEMMA InvHealthyRestored == Inv => HealthyRestored
<1>1. Healthy \subseteq Path
  BY DEF Healthy
<1> QED
  BY <1>1, AllBack DEF HealthyRestored, Back

-------------------------------------------------------------------------------
(* The invariant is inductive.  First, what the steps have in common. *)

\* Inv without what the types already give.
RestInv ==
  DeadEmpty /\ SelectionOK /\ Good(sysfs) /\ Good(baseline) /\ Saving /\ OwnerOK
  /\ WritesSaved /\ Covered /\ MidRail /\ Restoring

LEMMA InvParts == Inv <=> TypeInv /\ RestInv
BY DEF Inv, TypeInv, RestInv

\* The saved state a restore would use stays what it is.
SameOwner == /\ Owner'.saved_rails = Owner.saved_rails
             /\ Owner'.saved_tunables = Owner.saved_tunables

LEMMA OwnerKept ==
  ASSUME Inv, UNCHANGED baseline, SameOwner
  PROVE  OwnerOK' /\ \A p : SavedPath(p)' <=> SavedPath(p)
<1>1. OwnerOK'
  BY DEF Inv, OwnerOK, SameOwner, Snapshot, SavedTunableOK
<1>2. ASSUME NEW p PROVE SavedPath(p)' <=> SavedPath(p)
  BY DEF SavedPath, SameOwner
<1> QED
  BY <1>1, <1>2

\* A step that ends between two calls, or with the object's death: either what is
\* saved passes on, or nothing is owed any more.
LEMMA AtRest ==
  ASSUME Inv, frame'.pc \in {"idle", "dead"}, UNCHANGED sysfs, SelectionOK', DeadEmpty',
         \/ /\ UNCHANGED baseline
            /\ impl'.saved_rails = Owner.saved_rails
            /\ impl'.saved_tunables = Owner.saved_tunables
         \/ /\ baseline' = sysfs'
            /\ impl'.saved_rails = <<>> /\ impl'.saved_tunables = <<>>
  PROVE  RestInv'
<1>1. frame'.pc \notin WritePc /\ frame'.pc \notin SavePc /\ frame'.pc \notin RailPc
  BY DEF WritePc, SavePc, RailPc
<1>2. Owner' = impl'
  BY <1>1 DEF Owner
<1>3. Saving' /\ WritesSaved' /\ MidRail' /\ Restoring'
  BY <1>1 DEF Saving, WritesSaved, MidRail, Restoring, RailPc
<1>4. Good(sysfs)' /\ Good(baseline)'
  BY InvTypes DEF Good, RailsOrdered
<1>5. OwnerOK' /\ Covered'
  <2>1. CASE /\ UNCHANGED baseline
             /\ impl'.saved_rails = Owner.saved_rails
             /\ impl'.saved_tunables = Owner.saved_tunables
    <3>1. SameOwner
      BY <1>2, <2>1 DEF SameOwner
    <3> QED
      BY <2>1, <3>1, OwnerKept DEF Covered, Inv
  <2>2. CASE /\ baseline' = sysfs'
             /\ impl'.saved_rails = <<>> /\ impl'.saved_tunables = <<>>
    BY <1>2, <2>2 DEF OwnerOK, Covered
  <2> QED
    BY <2>1, <2>2
<1> QED
  BY <1>3, <1>4, <1>5 DEF RestInv

\* A step of the first half of SetClocks, or into it.
LEMMA SavingOn ==
  ASSUME Inv, frame.pc \notin WritePc, frame'.pc \in SavePc,
         UNCHANGED <<sysfs, impl, baseline>>, Saving'
  PROVE  RestInv'
<1>1. frame'.pc \notin WritePc /\ frame'.pc \notin RailPc /\ frame'.pc # "dead"
  BY DEF WritePc, SavePc, RailPc
<1>2. SameOwner
  BY <1>1, OwnerIsImpl DEF Owner, SameOwner
<1>3. DeadEmpty' /\ WritesSaved' /\ MidRail' /\ Restoring'
  BY <1>1 DEF DeadEmpty, WritesSaved, MidRail, Restoring, RailPc
<1>4. SelectionOK' /\ Good(sysfs)' /\ Good(baseline)'
  BY DEF Inv, SelectionOK, Good, RailsOrdered
<1>5. OwnerOK' /\ Covered'
  BY <1>2, OwnerKept DEF Covered, Inv
<1> QED
  BY <1>3, <1>4, <1>5 DEF RestInv

\* What a step inside the write phase does not touch.
Writing ==
  /\ frame.pc \in WritePc /\ frame'.pc \in WritePc
  /\ UNCHANGED <<impl, baseline>>
  /\ frame'.op = frame.op
  /\ frame'.saved_rails = frame.saved_rails
  /\ frame'.saved_tunables = frame.saved_tunables

LEMMA WritingOn ==
  ASSUME Inv, Writing, Good(sysfs)', Covered', MidRail', Restoring'
  PROVE  RestInv'
<1>1. Rails' = Rails /\ Tunables' = Tunables /\ (Setting' <=> Setting)
  BY RailsKept DEF Writing
<1>2. SameOwner
  BY <1>1 DEF SameOwner, Owner, Writing
<1>3. DeadEmpty' /\ Saving'
  BY DEF DeadEmpty, Saving, Writing, WritePc, SavePc
<1>4. SelectionOK' /\ Good(baseline)'
  BY DEF Inv, SelectionOK, Good, RailsOrdered, Writing
<1>5. OwnerOK' /\ WritesSaved'
  BY <1>1, <1>2, OwnerKept DEF WritesSaved, Inv, Writing
<1> QED
  BY <1>3, <1>4, <1>5 DEF RestInv

LEMMA InitInv == HInit => Inv
<1> SUFFICES ASSUME HInit PROVE Inv
  OBVIOUS
<1>1. TypeInv
  BY InitTypes
<1>2. /\ frame.pc = "idle" /\ impl = NewImpl /\ baseline = sysfs /\ sysfs \in InitSysfs
  BY DEF HInit, Init, SysfsInit, Enter
<1>3. /\ impl.selected_targets = <<>> /\ impl.selected_tunables = <<>>
      /\ impl.saved_rails = <<>> /\ impl.saved_tunables = <<>>
  BY <1>2 DEF NewImpl
<1>4. Good(sysfs) /\ Good(baseline)
  BY <1>2, InitSysfsAssumption, NoRailAtZero DEF Good, RailNodes
<1>5. SelectionOK /\ OwnerOK
  BY <1>2, <1>3 DEF SelectionOK, OwnerOK, Owner, WritePc
<1>6. DeadEmpty /\ Saving /\ WritesSaved /\ Covered /\ MidRail /\ Restoring
  BY <1>2 DEF DeadEmpty, Saving, WritesSaved, Covered, MidRail, Restoring, SavePc, WritePc
<1> QED
  BY <1>1, <1>4, <1>5, <1>6, InvParts DEF RestInv

-------------------------------------------------------------------------------
(* The write phase. *)

\* The node that a step writes has been saved; a restore writes what it was.
LEMMA NodeWritten ==
  ASSUME Inv, Writing, NEW path \in Path, NEW value \in Nat,
         path \in RailNodes => value # 0,
         SavedPath(path), ~Setting => value = baseline[path],
         WriteSucceeds(path, value), frame'.ok = frame.ok
  PROVE  /\ Good(sysfs)' /\ Covered'
         /\ ~Setting => Back(path)' /\ \A q \in Path : Back(q) => Back(q)'
<1>1. sysfs' = [sysfs EXCEPT ![path] = value] /\ sysfs \in [Path -> Nat]
  BY InvTypes DEF WriteSucceeds
<1>2. Good(sysfs)'
  BY InvTypes, WriteGood
<1>3. SameOwner
  <2>1. Setting' <=> Setting
    BY RailsKept DEF Writing
  <2> QED
    BY <2>1 DEF SameOwner, Owner, Writing
<1>4. Covered'
  BY <1>1, <1>3, OwnerKept DEF Covered, Inv, Writing
<1>5. ASSUME ~Setting PROVE Back(path)'
  BY <1>1, <1>5 DEF Back, Writing
<1>6. ASSUME ~Setting, NEW q \in Path, Back(q) PROVE Back(q)'
  BY <1>1, <1>6 DEF Back, Writing
<1> QED
  BY <1>2, <1>4, <1>5, <1>6

\* A node that was not written keeps what it holds; a failure explains the rest.
LEMMA NotWritten ==
  ASSUME Inv, Writing, UNCHANGED sysfs, frame'.ok => frame.ok
  PROVE  Good(sysfs)' /\ Covered' /\ \A q : Back(q) => Back(q)'
<1>1. Good(sysfs)'
  BY DEF Inv, Good, RailsOrdered
<1>2. SameOwner
  <2>1. Setting' <=> Setting
    BY RailsKept DEF Writing
  <2> QED
    BY <2>1 DEF SameOwner, Owner, Writing
<1>3. Covered'
  BY <1>2, OwnerKept DEF Covered, Inv, Writing
<1> QED
  BY <1>1, <1>3 DEF Back, Writing

\* The saved nodes are nodes.
LEMMA SavedNodes ==
  ASSUME Inv, ~Setting
  PROVE  /\ \A j \in DOMAIN impl.saved_rails :
              LET s == impl.saved_rails[j]
              IN  (s.has_min => s.min_path \in Path) /\ (s.has_max => s.max_path \in Path)
         /\ \A j \in DOMAIN impl.saved_tunables : impl.saved_tunables[j].sysfs_path \in Path
<1>1. ASSUME NEW j \in DOMAIN impl.saved_rails
      PROVE  LET s == impl.saved_rails[j]
             IN  (s.has_min => s.min_path \in Path) /\ (s.has_max => s.max_path \in Path)
  <2>1. j \in DOMAIN Rails
    BY DEF Rails
  <2> QED
    BY <1>1, <2>1, RestoredRail, WantedNodes
<1>2. ASSUME NEW j \in DOMAIN impl.saved_tunables
      PROVE  impl.saved_tunables[j].sysfs_path \in Path
  <2>1. impl.saved_tunables[j] \in SavedTunable
    BY InvTypes DEF ImplType
  <2> QED
    BY <2>1 DEF SavedTunable
<1> QED
  BY <1>1, <1>2

\* What is back stays back, and what the loops have passed by this step is back.
LEMMA RestoringOn ==
  ASSUME Inv, Writing,
         ~Setting =>
           /\ \A q \in Path : Back(q) => Back(q)'
           /\ \A j \in DOMAIN impl.saved_rails :
                (j < frame'.i \/ frame'.pc = "tunable") =>
                  j < frame.i \/ frame.pc = "tunable" \/ RailBack(j)'
           /\ frame'.pc = "tunable" =>
                \A j \in DOMAIN impl.saved_tunables : j < frame'.i =>
                  \/ frame.pc = "tunable" /\ j < frame.i
                  \/ Back(impl.saved_tunables[j].sysfs_path)'
  PROVE  Restoring'
<1>1. Setting' <=> Setting
  BY RailsKept DEF Writing
<1> SUFFICES ASSUME ~Setting PROVE Restoring'
  BY <1>1 DEF Restoring
<1>2. /\ \A j \in DOMAIN impl.saved_rails : (j < frame.i \/ frame.pc = "tunable") => RailBack(j)
      /\ frame.pc = "tunable" =>
           \A j \in DOMAIN impl.saved_tunables :
             j < frame.i => Back(impl.saved_tunables[j].sysfs_path)
  BY DEF Inv, Restoring, Writing
<1>3. ASSUME NEW j \in DOMAIN impl.saved_rails, RailBack(j)
      PROVE  RailBack(j)'
  BY <1>3, SavedNodes DEF RailBack, Writing
<1>4. ASSUME NEW j \in DOMAIN impl.saved_tunables, Back(impl.saved_tunables[j].sysfs_path)
      PROVE  Back(impl.saved_tunables[j].sysfs_path)'
  BY <1>4, SavedNodes DEF Writing
<1>5. \A j \in DOMAIN impl.saved_rails :
        (j < frame'.i \/ frame'.pc = "tunable") => RailBack(j)'
  BY <1>2, <1>3
<1>6. frame'.pc = "tunable" =>
        \A j \in DOMAIN impl.saved_tunables :
          j < frame'.i => Back(impl.saved_tunables[j].sysfs_path)'
  BY <1>2, <1>4
<1> QED
  BY <1>5, <1>6 DEF Restoring, Writing

\* The write a call makes next goes to a saved node; a restore writes what it was.
LEMMA PendingNode ==
  ASSUME Inv, frame.pc \in RailPc
  PROVE  /\ PendingWrite[1] \in Path /\ PendingWrite[2] \in Nat
         /\ PendingWrite[1] \in RailNodes => PendingWrite[2] # 0
         /\ SavedPath(PendingWrite[1])
         /\ ~Setting => PendingWrite[2] = baseline[PendingWrite[1]]
         /\ PendingWrite[1] \in {Rail.min_path, Rail.max_path}
<1>1. /\ frame.i \in DOMAIN Rails /\ Rail = Rails[frame.i] /\ WF(Rail)
  BY CurrentRail
<1>2. /\ WantMin(Rail) => Rail.min_path \in Path /\ Rail.min_khz # 0
      /\ WantMax(Rail) => Rail.max_path \in Path /\ Rail.max_khz # 0
      /\ Rail.min_khz \in Nat /\ Rail.max_khz \in Nat
  BY <1>1, WantedNodes
<1>3. /\ WantMin(Rail) => SavedPath(Rail.min_path)
      /\ WantMax(Rail) => SavedPath(Rail.max_path)
  BY <1>1 DEF Inv, WritesSaved, WritePc, RailPc
<1>4. ASSUME ~Setting
      PROVE  /\ WantMin(Rail) => Rail.min_khz = baseline[Rail.min_path]
             /\ WantMax(Rail) => Rail.max_khz = baseline[Rail.max_path]
  <2>1. frame.i \in DOMAIN impl.saved_rails
    BY <1>1, <1>4 DEF Rails
  <2> QED
    BY <1>1, <1>4, <2>1, RestoredRail
<1>5. CASE WantMin(Rail) /\ PendingWrite = <<Rail.min_path, Rail.min_khz>>
  BY <1>2, <1>3, <1>4, <1>5
<1>6. CASE WantMax(Rail) /\ PendingWrite = <<Rail.max_path, Rail.max_khz>>
  BY <1>2, <1>3, <1>4, <1>6
<1>7. CASE frame.pc = "min_first"
  <2>1. WantMin(Rail) /\ Rail.min_khz # 0
    BY <1>1, <1>7, MinFirstRail DEF Inv, MidRail
  <2>2. PendingWrite = <<Rail.min_path, Rail.min_khz>>
    BY <1>7, <2>1 DEF PendingWrite
  <2> QED
    BY <1>5, <2>1, <2>2
<1>8. CASE frame.pc \in {"max_last", "max_first"}
  BY <1>6, <1>8 DEF Inv, MidRail, PendingWrite
<1>9. CASE frame.pc = "min_last"
  BY <1>5, <1>9 DEF Inv, MidRail, PendingWrite
<1> QED
  BY <1>7, <1>8, <1>9 DEF RailPc

LEMMA RailSuccess ==
  ASSUME Inv, Writing, frame.pc \in RailPc, WriteSucceeds(PendingWrite[1], PendingWrite[2]),
         frame'.ok = frame.ok, MidRail',
         \/ frame'.pc \in RailPc /\ frame'.i = frame.i
         \/ /\ frame'.pc = "rail" /\ frame'.i = frame.i + 1
            /\ WantMin(Rail) => sysfs'[Rail.min_path] = Rail.min_khz
            /\ WantMax(Rail) => sysfs'[Rail.max_path] = Rail.max_khz
  PROVE  RestInv'
<1>1. /\ Good(sysfs)' /\ Covered'
      /\ ~Setting => \A q \in Path : Back(q) => Back(q)'
  <2> DEFINE path == PendingWrite[1]
             value == PendingWrite[2]
  <2>1. /\ path \in Path /\ value \in Nat /\ (path \in RailNodes => value # 0)
        /\ SavedPath(path) /\ (~Setting => value = baseline[path])
        /\ WriteSucceeds(path, value)
    BY PendingNode
  <2> HIDE DEF path, value
  <2> QED
    BY <2>1, NodeWritten
<1>2. frame'.pc # "tunable" /\ frame.i \in Nat
  BY InvTypes DEF RailPc
<1>3. ASSUME ~Setting, frame'.pc = "rail", NEW j \in DOMAIN impl.saved_rails, j = frame.i
      PROVE  RailBack(j)'
  <2>1. /\ Rail = Rails[j]
        /\ WantMin(Rail) => sysfs'[Rail.min_path] = Rail.min_khz
        /\ WantMax(Rail) => sysfs'[Rail.max_path] = Rail.max_khz
    BY <1>3 DEF Rail, RailPc
  <2> QED
    BY <1>3, <2>1, RestoredRail DEF RailBack, Back, Writing
<1>4. \A j \in DOMAIN impl.saved_rails : j < frame'.i => j < frame.i \/ j = frame.i
  <2>1. impl.saved_rails \in Seq(SavedRail)
    BY InvTypes DEF ImplType
  <2>2. \A j \in DOMAIN impl.saved_rails : j \in Nat
    BY <2>1
  <2> QED
    BY <1>2, <2>2
<1>5. Restoring'
  BY <1>1, <1>2, <1>3, <1>4, RestoringOn DEF RailPc
<1> QED
  BY <1>1, <1>5, WritingOn

\* A restoring write that fails does so on a rail with a faulty node.
LEMMA RailFailure ==
  ASSUME Inv, Writing, ~Setting, frame.pc \in RailPc,
         WriteFails(PendingWrite[1], PendingWrite[2]),
         frame'.pc = "rail", frame'.i = frame.i + 1, frame'.ok = FALSE
  PROVE  RestInv'
<1>1. Rail.min_path \in Faulty \/ Rail.max_path \in Faulty
  BY OrderedWrites, PendingNode DEF WriteFails, ReadMayFail
<1>2. /\ WantMin(Rail) => Rail.min_path \notin Healthy
      /\ WantMax(Rail) => Rail.max_path \notin Healthy
  <2>1. WF(Rail) /\ NoPath \notin Faulty
    BY CurrentRail, NoPathAssumption, FaultyAssumption
  <2>2. CASE Rail.min_path # NoPath /\ Rail.max_path # NoPath
    BY <1>1, <2>1, <2>2, TwoSided, FaultyRail
  <2>3. CASE Rail.min_path = NoPath \/ Rail.max_path = NoPath
    BY <1>1, <2>1, <2>3 DEF WantMin, WantMax, PathPresent, Healthy
  <2> QED
    BY <2>2, <2>3
<1>3. /\ Good(sysfs)' /\ Covered' /\ \A q : Back(q) => Back(q)'
  BY NotWritten DEF WriteFails
<1>4. ASSUME NEW j \in DOMAIN impl.saved_rails, j = frame.i
      PROVE  RailBack(j)'
  <2>1. Rail = Rails[j]
    BY <1>4 DEF Rail
  <2> QED
    BY <1>2, <1>4, <2>1, RestoredRail DEF RailBack, Back, Writing
<1>5. \A j \in DOMAIN impl.saved_rails : j < frame'.i => j < frame.i \/ j = frame.i
  <2>1. impl.saved_rails \in Seq(SavedRail) /\ frame.i \in Nat
    BY InvTypes DEF ImplType
  <2>2. \A j \in DOMAIN impl.saved_rails : j \in Nat
    BY <2>1
  <2> QED
    BY <2>1, <2>2
<1>6. Restoring'
  BY <1>3, <1>4, <1>5, RestoringOn
<1>7. MidRail'
  BY DEF MidRail
<1> QED
  BY <1>3, <1>6, <1>7, WritingOn

\* The tunables of a profile, or saved, are on no rail and are saved.
LEMMA CurrentTunable ==
  ASSUME Inv, frame.pc = "tunable", More(Tunables), PathPresent(Tunables[frame.i].sysfs_path)
  PROVE  LET path == Tunables[frame.i].sysfs_path
             value == Tunables[frame.i].value
         IN  /\ path \in Path /\ value \in Nat
             /\ path \notin RailNodes /\ path \notin KernelNodes
             /\ SavedPath(path)
             /\ ~Setting => /\ frame.i \in DOMAIN impl.saved_tunables
                            /\ path = impl.saved_tunables[frame.i].sysfs_path
                            /\ value = baseline[path]
<1> DEFINE path == Tunables[frame.i].sysfs_path
           value == Tunables[frame.i].value
<1>1. frame.i \in DOMAIN Tunables /\ path # NoPath
  BY DEF More, PathPresent
<1>2. path \in Path /\ value \in Nat
  BY <1>1, InvTypes, TunableTyped DEF TypeInv
<1>3. SavedPath(path)
  BY <1>1 DEF Inv, WritesSaved, WritePc, PathPresent
<1>4. ASSUME ~Setting
      PROVE  /\ frame.i \in DOMAIN impl.saved_tunables
             /\ path = impl.saved_tunables[frame.i].sysfs_path
             /\ path \in TunablePaths /\ value = baseline[path]
  <2> DEFINE u == impl.saved_tunables[frame.i]
  <2>1. frame.i \in DOMAIN impl.saved_tunables
    BY <1>1, <1>4 DEF Tunables
  <2>2. path = u.sysfs_path /\ value = u.prev_value
    BY <1>4, <2>1 DEF Tunables
  <2>3. SavedTunableOK(u, baseline)
    BY <1>4, <2>1, OwnerIsImpl DEF Inv, OwnerOK
  <2> QED
    BY <2>1, <2>2, <2>3 DEF SavedTunableOK
<1>5. path \in TunablePaths
  <2>1. ASSUME Setting PROVE path \in TunablePaths
    BY <1>1, <2>1 DEF Inv, SelectionOK, Tunables
  <2> QED
    BY <1>4, <2>1
<1>6. path \notin RailNodes /\ path \notin KernelNodes
  BY <1>1, <1>5, TunableApart
<1> QED
  BY <1>2, <1>3, <1>4, <1>6

\* The write of a tunable, whether it succeeds or, in a restore, fails.
LEMMA TunableWritten ==
  ASSUME Inv, Writing, frame.pc = "tunable", More(Tunables),
         PathPresent(Tunables[frame.i].sysfs_path),
         frame'.pc = "tunable", frame'.i = frame.i + 1,
         \/ /\ WriteSucceeds(Tunables[frame.i].sysfs_path, Tunables[frame.i].value)
            /\ frame'.ok = frame.ok
         \/ /\ WriteFails(Tunables[frame.i].sysfs_path, Tunables[frame.i].value)
            /\ ~Setting /\ frame'.ok = FALSE
  PROVE  RestInv'
<1> DEFINE path == Tunables[frame.i].sysfs_path
           value == Tunables[frame.i].value
<1>1. /\ path \in Path /\ value \in Nat
      /\ path \notin RailNodes /\ path \notin KernelNodes
      /\ SavedPath(path)
      /\ ~Setting => /\ frame.i \in DOMAIN impl.saved_tunables
                     /\ path = impl.saved_tunables[frame.i].sysfs_path
                     /\ value = baseline[path]
  BY CurrentTunable
<1>2. \/ WriteSucceeds(path, value) /\ frame'.ok = frame.ok
      \/ WriteFails(path, value) /\ ~Setting /\ frame'.ok = FALSE
  OBVIOUS
<1> HIDE DEF path, value
<1>3. /\ Good(sysfs)' /\ Covered'
      /\ ~Setting => \A q \in Path : (q = path \/ Back(q)) => Back(q)'
  <2>1. CASE WriteSucceeds(path, value) /\ frame'.ok = frame.ok
    BY <1>1, <2>1, NodeWritten
  <2>2. CASE WriteFails(path, value) /\ ~Setting /\ frame'.ok = FALSE
    <3>1. path \notin Healthy
      BY <1>1, <2>2, AcceptsFree DEF WriteFails, Healthy
    <3>2. Good(sysfs)' /\ Covered' /\ \A q : Back(q) => Back(q)'
      BY <2>2, NotWritten DEF WriteFails
    <3> QED
      BY <2>2, <3>1, <3>2 DEF Back
  <2> QED
    BY <1>2, <2>1, <2>2
<1>4. \A j \in DOMAIN impl.saved_tunables : j < frame'.i => j < frame.i \/ j = frame.i
  <2>1. impl.saved_tunables \in Seq(SavedTunable) /\ frame.i \in Nat
    BY InvTypes DEF ImplType
  <2>2. \A j \in DOMAIN impl.saved_tunables : j \in Nat
    BY <2>1
  <2> QED
    BY <2>1, <2>2
<1>5. Restoring'
  <2>1. ASSUME ~Setting
        PROVE  \A j \in DOMAIN impl.saved_tunables : j < frame'.i =>
                 \/ j < frame.i
                 \/ Back(impl.saved_tunables[j].sysfs_path)'
    <3>1. /\ \A q \in Path : q = path => Back(q)'
          /\ path \in Path /\ path = impl'.saved_tunables[frame.i].sysfs_path
      BY <1>1, <1>3, <2>1 DEF Writing
    <3> QED
      BY <1>4, <3>1 DEF Back, Writing
  <2> QED
    BY <1>3, <2>1, RestoringOn
<1>6. MidRail'
  BY DEF MidRail
<1> QED
  BY <1>3, <1>5, <1>6, WritingOn

\* The frames that a step of the write phase leaves.
LEMMA FrameMoved ==
  ASSUME Inv, UNCHANGED <<impl, baseline>>, frame.pc \in WritePc,
         NEW pc \in WritePc, frame' = [frame EXCEPT !.pc = pc]
  PROVE  Writing /\ frame'.pc = pc /\ frame'.i = frame.i /\ frame'.ok = frame.ok
BY InvTypes DEF Writing, FrameType

LEMMA FrameAdvanced ==
  ASSUME Inv, UNCHANGED <<impl, baseline>>, frame.pc \in WritePc, frame' = NextRail
  PROVE  Writing /\ frame'.pc = "rail" /\ frame'.i = frame.i + 1 /\ frame'.ok = frame.ok
<1>1. /\ NextRail = At("rail", frame.i + 1)
      /\ frame.i + 1 \in Nat \ {0} /\ "rail" \in SavePc \cup WritePc
  BY InvTypes DEF NextRail, At, WritePc
<1> QED
  BY <1>1, InvTypes, AtTyped DEF Writing, WritePc

LEMMA FrameFailed ==
  ASSUME Inv, UNCHANGED <<impl, baseline>>, frame.pc \in WritePc,
         frame' = [frame EXCEPT !.ok = FALSE, !.i = @ + 1,
                                !.pc = IF @ = "tunable" THEN "tunable" ELSE "rail"]
  PROVE  /\ Writing /\ frame'.i = frame.i + 1 /\ frame'.ok = FALSE
         /\ frame'.pc = IF frame.pc = "tunable" THEN "tunable" ELSE "rail"
<1> DEFINE pc == IF frame.pc = "tunable" THEN "tunable" ELSE "rail"
           i == frame.i + 1
<1>1. frame' = [frame EXCEPT !.ok = FALSE, !.i = i, !.pc = pc]
  OBVIOUS
<1>2. pc \in WritePc
  BY DEF WritePc
<1> HIDE DEF pc, i
<1>3. Writing /\ frame'.i = i /\ frame'.ok = FALSE /\ frame'.pc = pc
  BY <1>1, <1>2, InvTypes DEF Writing, FrameType
<1> QED
  BY <1>3 DEF pc, i

LEMMA BaselineKept ==
  ASSUME HNext, frame.pc \in WritePc, frame'.pc # "dead", Setting \/ frame'.pc # "idle"
  PROVE  UNCHANGED baseline
BY DEF HNext, BeginsWriting, OwesNothing, Setting, WritePc

\* SetClocks returns from its second half, early or late: it commits what it saved.
LEMMA SetCommits ==
  ASSUME Inv, UNCHANGED <<sysfs, baseline>>, frame.pc \in WritePc, Setting,
         impl' = Commit, NEW result \in BOOLEAN, frame' = Returned("set", result)
  PROVE  RestInv'
<1>1. frame'.pc = "idle"
  BY ReturnedTyped DEF Ops
<1>2. /\ impl'.selected_targets = impl.selected_targets
      /\ impl'.selected_tunables = impl.selected_tunables
      /\ impl'.saved_rails = frame.saved_rails /\ impl'.saved_tunables = frame.saved_tunables
  BY InvTypes DEF Commit, ImplType
<1>3. Owner = frame
  BY DEF Owner
<1>4. SelectionOK' /\ DeadEmpty'
  BY <1>1, <1>2 DEF Inv, SelectionOK, DeadEmpty
<1> QED
  BY <1>1, <1>2, <1>3, <1>4, AtRest

\* One write in the middle of a rail; what follows its success is left to prove.
LEMMA RailNode ==
  ASSUME Inv, HNext, frame.pc \in RailPc, NEW next,
         WriteNode(PendingWrite[1], PendingWrite[2], next),
         /\ WriteSucceeds(PendingWrite[1], PendingWrite[2])
         /\ frame' = next /\ UNCHANGED impl
         => RestInv'
  PROVE  RestInv'
<1>1. frame.pc \in WritePc
  BY DEF RailPc, WritePc
<1>2. CASE /\ WriteFails(PendingWrite[1], PendingWrite[2]) /\ Setting
           /\ impl' = Commit /\ frame' = Returned("set", FALSE)
  <2>1. frame'.pc = "idle"
    BY <1>2, ReturnedTyped DEF Ops
  <2>2. UNCHANGED <<sysfs, baseline>>
    BY <1>1, <1>2, <2>1, BaselineKept DEF WriteFails
  <2> QED
    BY <1>1, <1>2, <2>2, SetCommits
<1>3. CASE /\ WriteFails(PendingWrite[1], PendingWrite[2]) /\ ~Setting
           /\ frame' = [frame EXCEPT !.ok = FALSE, !.i = @ + 1,
                                     !.pc = IF @ = "tunable" THEN "tunable" ELSE "rail"]
           /\ UNCHANGED impl
  <2>1. UNCHANGED baseline
    <3>1. frame'.pc \in {"tunable", "rail"}
      BY <1>3, InvTypes DEF FrameType
    <3> QED
      BY <1>1, <3>1, BaselineKept
  <2>2. Writing /\ frame'.i = frame.i + 1 /\ frame'.ok = FALSE /\ frame'.pc = "rail"
    BY <1>1, <1>3, <2>1, FrameFailed DEF RailPc
  <2> QED
    BY <1>3, <2>2, RailFailure
<1> QED
  BY <1>2, <1>3 DEF WriteNode

LEMMA RailSteps ==
  ASSUME Inv, HNext, WriteMinFirst \/ WriteMaxLast \/ WriteMaxFirst \/ WriteMinLast
  PROVE  RestInv'
<1>1. /\ frame.pc \in RailPc /\ frame.pc \in WritePc
  BY DEF WriteMinFirst, WriteMaxLast, WriteMaxFirst, WriteMinLast, RailPc, WritePc
<1>2. /\ WF(Rail) /\ sysfs \in [Path -> Nat]
      /\ WantMin(Rail) => Rail.min_path \in Path
      /\ WantMax(Rail) => Rail.max_path \in Path
  BY <1>1, CurrentRail, InvTypes, WantedNodes
<1>3. WantMin(Rail) /\ WantMax(Rail) => Rail.min_path # Rail.max_path
  BY <1>2, TwoSided DEF WantMin, WantMax, PathPresent
\* The rail is finished, with both of its values in place.
<1>4. ASSUME WriteSucceeds(PendingWrite[1], PendingWrite[2]), frame' = NextRail, UNCHANGED impl,
             WantMin(Rail) => sysfs'[Rail.min_path] = Rail.min_khz,
             WantMax(Rail) => sysfs'[Rail.max_path] = Rail.max_khz
      PROVE  RestInv'
  <2>1. NextRail.pc = "rail"
    BY InvTypes, NextRailTyped
  <2>2. UNCHANGED baseline
    BY <1>1, <1>4, <2>1, BaselineKept
  <2>3. Writing /\ frame'.pc = "rail" /\ frame'.i = frame.i + 1 /\ frame'.ok = frame.ok
    BY <1>1, <1>4, <2>2, FrameAdvanced
  <2>4. MidRail'
    BY <2>3 DEF MidRail
  <2> QED
    BY <1>1, <1>4, <2>3, <2>4, RailSuccess
\* The rail's second write is next.
<1>5. ASSUME WriteSucceeds(PendingWrite[1], PendingWrite[2]), UNCHANGED impl,
             NEW pc \in {"max_last", "min_last"}, frame' = [frame EXCEPT !.pc = pc],
             WantMin(Rail), WantMax(Rail),
             pc = "max_last" => sysfs'[Rail.min_path] = Rail.min_khz,
             pc = "min_last" => sysfs'[Rail.max_path] = Rail.max_khz
      PROVE  RestInv'
  <2>1. pc \in WritePc /\ pc \in RailPc
    BY DEF WritePc, RailPc
  <2>2. UNCHANGED baseline
    <3>1. frame'.pc = pc
      BY <1>5, InvTypes DEF FrameType
    <3> QED
      BY <1>1, <3>1, BaselineKept
  <2>3. Writing /\ frame'.pc = pc /\ frame'.i = frame.i /\ frame'.ok = frame.ok
    BY <1>1, <1>5, <2>1, <2>2, FrameMoved
  <2>4. Rail' = Rail
    BY <2>3, RailsKept DEF Writing, Rail
  <2>5. MidRail'
    BY <1>5, <2>3, <2>4 DEF MidRail, WantMin, WantMax, PathPresent
  <2> QED
    BY <1>1, <1>5, <2>1, <2>3, <2>5, RailSuccess
<1>6. CASE WriteMinFirst
  <2>1. /\ WantMin(Rail) /\ WantMax(Rail) /\ Rail.min_khz # 0
    BY <1>2, <1>6, MinFirstRail DEF Inv, MidRail, WriteMinFirst
  <2>2. PendingWrite = <<Rail.min_path, Rail.min_khz>>
        /\ WriteNode(Rail.min_path, Rail.min_khz, [frame EXCEPT !.pc = "max_last"])
    BY <1>6, <2>1 DEF PendingWrite, WriteMinFirst
  <2>3. WriteSucceeds(Rail.min_path, Rail.min_khz) => sysfs'[Rail.min_path] = Rail.min_khz
    BY <1>2, <2>1 DEF WriteSucceeds
  <2> DEFINE next == [frame EXCEPT !.pc = "max_last"]
  <2>4. WriteNode(PendingWrite[1], PendingWrite[2], next)
    BY <2>2
  <2>5. WriteSucceeds(PendingWrite[1], PendingWrite[2]) /\ frame' = next /\ UNCHANGED impl
        => RestInv'
    BY <1>5, <2>1, <2>2, <2>3
  <2> HIDE DEF next
  <2> QED
    BY <1>1, <2>4, <2>5, RailNode
<1>7. CASE WriteMaxLast
  <2>1. WantMin(Rail) /\ WantMax(Rail) /\ sysfs[Rail.min_path] = Rail.min_khz
    BY <1>7 DEF Inv, MidRail, WriteMaxLast
  <2>2. PendingWrite = <<Rail.max_path, Rail.max_khz>>
        /\ WriteNode(Rail.max_path, Rail.max_khz, NextRail)
    BY <1>7 DEF PendingWrite, WriteMaxLast
  <2>3. WriteSucceeds(Rail.max_path, Rail.max_khz) =>
          sysfs'[Rail.max_path] = Rail.max_khz /\ sysfs'[Rail.min_path] = Rail.min_khz
    BY <1>2, <1>3, <2>1 DEF WriteSucceeds
  <2> QED
    BY <1>1, <1>4, <2>2, <2>3, RailNode
<1>8. CASE WriteMaxFirst
  <2>1. WantMax(Rail)
    BY <1>8 DEF Inv, MidRail, WriteMaxFirst
  <2> DEFINE next == IF WantMin(Rail) THEN [frame EXCEPT !.pc = "min_last"] ELSE NextRail
  <2>2. PendingWrite = <<Rail.max_path, Rail.max_khz>>
        /\ WriteNode(Rail.max_path, Rail.max_khz, next)
    BY <1>8 DEF PendingWrite, WriteMaxFirst
  <2>3. WriteSucceeds(Rail.max_path, Rail.max_khz) => sysfs'[Rail.max_path] = Rail.max_khz
    BY <1>2, <2>1 DEF WriteSucceeds
  <2>4. WriteSucceeds(PendingWrite[1], PendingWrite[2]) /\ frame' = next /\ UNCHANGED impl
        => RestInv'
    <3>1. CASE WantMin(Rail)
      BY <1>5, <2>1, <2>2, <2>3, <3>1
    <3>2. CASE ~WantMin(Rail)
      BY <1>4, <2>2, <2>3, <3>2
    <3> QED
      BY <3>1, <3>2
  <2>5. WriteNode(PendingWrite[1], PendingWrite[2], next)
    BY <2>2
  <2> HIDE DEF next
  <2> QED
    BY <1>1, <2>4, <2>5, RailNode
<1>9. CASE WriteMinLast
  <2>1. WantMin(Rail) /\ (WantMax(Rail) => sysfs[Rail.max_path] = Rail.max_khz)
    BY <1>9 DEF Inv, MidRail, WriteMinLast
  <2>2. PendingWrite = <<Rail.min_path, Rail.min_khz>>
        /\ WriteNode(Rail.min_path, Rail.min_khz, NextRail)
    BY <1>9 DEF PendingWrite, WriteMinLast
  <2>3. WriteSucceeds(Rail.min_path, Rail.min_khz) =>
          /\ sysfs'[Rail.min_path] = Rail.min_khz
          /\ WantMax(Rail) => sysfs'[Rail.max_path] = Rail.max_khz
    BY <1>2, <1>3, <2>1 DEF WriteSucceeds
  <2> QED
    BY <1>1, <1>4, <2>2, <2>3, RailNode
<1> QED
  BY <1>6, <1>7, <1>8, <1>9

\* The steps of the loops that write nothing.
LEMMA LoopSteps ==
  ASSUME Inv, HNext, ApplyRail \/ RailsEnd \/ SkipTunable
  PROVE  RestInv'
<1>1. /\ UNCHANGED <<sysfs, impl>> /\ frame.pc \in WritePc /\ frame.pc \notin RailPc
  BY DEF ApplyRail, RailsEnd, SkipTunable, Local, WritePc, RailPc
<1>2. ASSUME Writing, frame'.ok = frame.ok, MidRail',
             ~Setting =>
               /\ \A j \in DOMAIN impl.saved_rails :
                    (j < frame'.i \/ frame'.pc = "tunable") =>
                      j < frame.i \/ frame.pc = "tunable" \/ RailBack(j)'
               /\ frame'.pc = "tunable" =>
                    \A j \in DOMAIN impl.saved_tunables : j < frame'.i =>
                      \/ frame.pc = "tunable" /\ j < frame.i
                      \/ Back(impl.saved_tunables[j].sysfs_path)'
      PROVE  RestInv'
  <2>1. Good(sysfs)' /\ Covered' /\ \A q : Back(q) => Back(q)'
    BY <1>1, <1>2, NotWritten
  <2>2. Restoring'
    BY <1>2, <2>1, RestoringOn
  <2> QED
    BY <1>2, <2>1, <2>2, WritingOn
<1>3. /\ frame.i \in Nat
      /\ \A j \in DOMAIN impl.saved_rails : j \in Nat
      /\ \A j \in DOMAIN impl.saved_tunables : j \in Nat /\ j >= 1
  <2>1. impl.saved_rails \in Seq(SavedRail) /\ impl.saved_tunables \in Seq(SavedTunable)
    BY InvTypes DEF ImplType
  <2> QED
    BY <2>1, InvTypes
<1>4. CASE ApplyRail /\ frame' = NextRail /\ ~WantMin(Rail) /\ ~WantMax(Rail)
  <2>1. UNCHANGED baseline
    <3>1. frame'.pc = "rail"
      BY <1>4, InvTypes, NextRailTyped
    <3> QED
      BY <1>1, <3>1, BaselineKept
  <2>2. Writing /\ frame'.pc = "rail" /\ frame'.i = frame.i + 1 /\ frame'.ok = frame.ok
    BY <1>1, <1>4, <2>1, FrameAdvanced
  <2>3. ASSUME ~Setting, NEW j \in DOMAIN impl.saved_rails, j < frame'.i, ~(j < frame.i)
        PROVE  RailBack(j)'
    <3>1. j = frame.i
      BY <1>3, <2>2, <2>3
    <3>2. Rail = Rails[j]
      BY <3>1 DEF Rail
    <3> QED
      BY <1>4, <2>2, <2>3, <3>2, RestoredRail DEF RailBack, Writing
  <2>4. MidRail'
    BY <2>2 DEF MidRail
  <2> QED
    BY <1>2, <2>2, <2>3, <2>4
<1>5. CASE /\ ApplyRail
           /\ \/ MinGoesFirst(Rail) /\ frame' = [frame EXCEPT !.pc = "min_first"]
              \/ /\ WantMax(Rail) /\ (MinGoesFirst(Rail) => ReadMayFail(Rail.min_path))
                 /\ frame' = [frame EXCEPT !.pc = "max_first"]
              \/ /\ WantMin(Rail) /\ ~WantMax(Rail)
                 /\ frame' = [frame EXCEPT !.pc = "min_last"]
  <2>1. PICK pc \in RailPc :
          /\ frame' = [frame EXCEPT !.pc = pc]
          /\ pc = "min_first" => MinGoesFirst(Rail)
          /\ pc = "max_first" => /\ WantMax(Rail)
                                 /\ MinGoesFirst(Rail) => ReadMayFail(Rail.min_path)
          /\ pc = "min_last" => WantMin(Rail) /\ ~WantMax(Rail)
          /\ pc # "max_last"
    BY <1>5 DEF RailPc
  <2>2. pc \in WritePc
    BY DEF RailPc, WritePc
  <2>3. UNCHANGED baseline
    <3>1. frame'.pc = pc
      BY <2>1, InvTypes DEF FrameType
    <3> QED
      BY <1>1, <3>1, BaselineKept DEF RailPc
  <2>4. Writing /\ frame'.pc = pc /\ frame'.i = frame.i /\ frame'.ok = frame.ok
    BY <1>1, <2>1, <2>2, <2>3, FrameMoved
  <2>5. Rail' = Rail
    BY <2>4, RailsKept DEF Writing, Rail
  <2>6. MidRail'
    BY <1>1, <2>1, <2>4, <2>5 DEF MidRail, MinGoesFirst, ReadMayFail, WantMin, WantMax, PathPresent
  <2>7. pc # "tunable"
    BY DEF RailPc
  <2> QED
    BY <1>2, <2>4, <2>6, <2>7
<1>6. CASE RailsEnd
  <2>1. frame' = At("tunable", 1) /\ frame.pc = "rail" /\ ~More(Rails)
    BY <1>6 DEF RailsEnd, At
  <2>2. /\ frame'.pc = "tunable" /\ frame'.i = 1 /\ frame'.op = frame.op /\ frame'.ok = frame.ok
        /\ frame'.saved_rails = frame.saved_rails
        /\ frame'.saved_tunables = frame.saved_tunables
    <3>1. "tunable" \in SavePc \cup WritePc /\ 1 \in Nat \ {0} /\ frame \in FrameType
      BY InvTypes DEF WritePc
    <3> QED
      BY <2>1, <3>1, AtTyped
  <2>3. UNCHANGED baseline
    BY <1>1, <2>2, BaselineKept
  <2>4. Writing
    BY <1>1, <2>2, <2>3 DEF Writing, WritePc
  <2>5. ASSUME ~Setting, NEW j \in DOMAIN impl.saved_rails
        PROVE  j < frame.i
    <3>1. impl.saved_rails \in Seq(SavedRail) /\ frame.i \in Nat \ {0}
      BY InvTypes DEF ImplType
    <3>2. DOMAIN Rails = DOMAIN impl.saved_rails /\ frame.i \notin DOMAIN Rails
      BY <2>1, <2>5 DEF More, Rails
    <3> QED
      BY <3>1, <3>2
  <2>6. MidRail'
    BY <2>2 DEF MidRail
  <2> QED
    BY <1>2, <1>3, <2>2, <2>4, <2>5, <2>6
<1>7. CASE SkipTunable
  <2>1. /\ frame.pc = "tunable" /\ frame' = [frame EXCEPT !.i = @ + 1]
        /\ frame.i \in DOMAIN Tunables /\ Tunables[frame.i].sysfs_path = NoPath
    BY <1>7 DEF SkipTunable, More, PathPresent
  <2>2. /\ frame'.pc = "tunable" /\ frame'.i = frame.i + 1 /\ frame'.ok = frame.ok
        /\ frame'.op = frame.op /\ frame'.saved_rails = frame.saved_rails
        /\ frame'.saved_tunables = frame.saved_tunables
    BY <2>1, InvTypes DEF FrameType
  <2>3. UNCHANGED baseline
    BY <1>1, <2>2, BaselineKept
  <2>4. Writing
    BY <1>1, <2>2, <2>3 DEF Writing, WritePc
  <2>5. Setting
    <3> SUFFICES ASSUME ~Setting PROVE FALSE
      OBVIOUS
    <3>1. /\ frame.i \in DOMAIN impl.saved_tunables
          /\ Tunables[frame.i].sysfs_path = impl.saved_tunables[frame.i].sysfs_path
      BY <2>1 DEF Tunables
    <3> QED
      BY <2>1, <3>1, SavedNodes, NoPathAssumption
  <2>6. MidRail'
    BY <2>2 DEF MidRail
  <2> QED
    BY <1>2, <2>2, <2>4, <2>5, <2>6
<1> QED
  BY <1>4, <1>5, <1>6, <1>7 DEF ApplyRail

LEMMA WriteSteps ==
  ASSUME Inv, HNext, Write
  PROVE  RestInv'
<1>1. CASE ApplyRail \/ RailsEnd \/ SkipTunable
  BY <1>1, LoopSteps
<1>2. CASE WriteMinFirst \/ WriteMaxLast \/ WriteMaxFirst \/ WriteMinLast
  BY <1>2, RailSteps
<1>3. CASE WriteTunable
  <2> DEFINE next == [frame EXCEPT !.i = @ + 1]
             path == Tunables[frame.i].sysfs_path
             value == Tunables[frame.i].value
  <2>1. /\ frame.pc = "tunable" /\ frame.pc \in WritePc /\ More(Tunables) /\ PathPresent(path)
        /\ WriteNode(path, value, next)
    BY <1>3 DEF WriteTunable, WritePc
  <2>2. /\ next.pc = "tunable" /\ next.i = frame.i + 1 /\ next.ok = frame.ok
        /\ next.op = frame.op /\ next.saved_rails = frame.saved_rails
        /\ next.saved_tunables = frame.saved_tunables
    BY <2>1, InvTypes DEF FrameType
  <2> HIDE DEF next
  <2>3. CASE WriteSucceeds(path, value) /\ frame' = next /\ UNCHANGED impl
    <3>1. UNCHANGED baseline
      BY <2>1, <2>2, <2>3, BaselineKept
    <3>2. Writing
      BY <2>1, <2>2, <2>3, <3>1 DEF Writing
    <3> QED
      BY <2>1, <2>2, <2>3, <3>2, TunableWritten
  <2>4. CASE WriteFails(path, value) /\ Setting /\ impl' = Commit /\ frame' = Returned("set", FALSE)
    <3>1. UNCHANGED <<sysfs, baseline>>
      <4>1. frame'.pc = "idle"
        BY <2>4, ReturnedTyped DEF Ops
      <4> QED
        BY <2>1, <2>4, <4>1, BaselineKept DEF WriteFails
    <3> QED
      BY <2>1, <2>4, <3>1, SetCommits
  <2>5. CASE /\ WriteFails(path, value) /\ ~Setting
             /\ frame' = [frame EXCEPT !.ok = FALSE, !.i = @ + 1,
                                       !.pc = IF @ = "tunable" THEN "tunable" ELSE "rail"]
             /\ UNCHANGED impl
    <3>1. UNCHANGED baseline
      <4>1. frame'.pc = "tunable"
        BY <2>1, <2>5, InvTypes DEF FrameType
      <4> QED
        BY <2>1, <4>1, BaselineKept
    <3>2. Writing /\ frame'.i = frame.i + 1 /\ frame'.ok = FALSE /\ frame'.pc = "tunable"
      BY <2>1, <2>5, <3>1, FrameFailed
    <3> QED
      BY <2>1, <2>5, <3>2, TunableWritten
  <2> QED
    BY <2>1, <2>3, <2>4, <2>5 DEF WriteNode
<1>4. CASE SetReturns
  <2>1. frame.pc \in WritePc /\ Setting /\ frame'.pc = "idle" /\ UNCHANGED sysfs
    BY <1>4, ReturnedTyped DEF SetReturns, WritesEnd, WritePc, Ops
  <2>2. UNCHANGED baseline
    BY <2>1, BaselineKept
  <2> QED
    BY <1>4, <2>1, <2>2, SetCommits DEF SetReturns
<1>5. CASE UnsetReturns
  <2>1. /\ frame'.pc = "idle" /\ WritesEnd /\ frame.op = "unset" /\ ~Setting
        /\ UNCHANGED sysfs
    BY <1>5, ReturnedTyped, InvTypes DEF UnsetReturns, Ops, Setting
  <2>2. baseline' = sysfs'
    <3>1. CASE frame.ok
      <4>1. sysfs = baseline
        BY <2>1, <3>1, InvRestoreExact DEF RestoreExact
      <4> QED
        BY <2>1, <4>1 DEF HNext
    <3>2. CASE ~frame.ok
      BY <2>1, <3>2 DEF HNext, OwesNothing
    <3> QED
      BY <3>1, <3>2
  <2>3. /\ impl'.selected_targets = impl.selected_targets
        /\ impl'.selected_tunables = impl.selected_tunables
        /\ impl'.saved_rails = <<>> /\ impl'.saved_tunables = <<>>
    BY <1>5, InvTypes DEF UnsetReturns, ImplType
  <2>4. SelectionOK' /\ DeadEmpty'
    BY <2>1, <2>3 DEF Inv, SelectionOK, DeadEmpty
  <2> QED
    BY <2>1, <2>2, <2>3, <2>4, AtRest
<1>6. CASE Destroyed
  <2>1. frame'.pc = "dead" /\ impl' = NewImpl /\ UNCHANGED sysfs
    BY <1>6 DEF Destroyed, Dead, Enter
  <2>2. baseline' = sysfs'
    BY <2>1 DEF HNext, OwesNothing
  <2>3. /\ impl'.selected_targets = <<>> /\ impl'.selected_tunables = <<>>
        /\ impl'.saved_rails = <<>> /\ impl'.saved_tunables = <<>>
    BY <2>1 DEF NewImpl
  <2>4. SelectionOK' /\ DeadEmpty'
    BY <2>1, <2>3 DEF SelectionOK, DeadEmpty
  <2> QED
    BY <2>1, <2>2, <2>3, <2>4, AtRest
<1> QED
  BY <1>1, <1>2, <1>3, <1>4, <1>5, <1>6 DEF Write

-------------------------------------------------------------------------------
(* The first half of SetClocks. *)

\* SaveMin appends the first half of a snapshot.
LEMMA MinSaved ==
  ASSUME TypeInv, SaveMin
  PROVE  /\ UNCHANGED <<sysfs, impl>> /\ frame.pc = "save_min" /\ frame'.pc = "save_max"
         /\ frame.i \in DOMAIN impl.selected_targets /\ frame'.i = frame.i
         /\ frame'.saved_tunables = frame.saved_tunables
         /\ \A j \in DOMAIN frame'.saved_rails :
              \/ /\ j = frame.i
                 /\ frame'.saved_rails[j] = HalfSnapshot(impl.selected_targets[j], sysfs)
              \/ /\ j # frame.i /\ j \in DOMAIN frame.saved_rails
                 /\ frame'.saved_rails[j] = frame.saved_rails[j]
<1> DEFINE t == SelectedTarget
           lo == IF WantMin(t) THEN sysfs[t.min_path] ELSE 0
           s == [min_path |-> t.min_path, max_path |-> t.max_path, prev_min |-> lo,
                 prev_max |-> 0, has_min |-> WantMin(t), has_max |-> FALSE]
<1>1. s = HalfSnapshot(t, sysfs)
  BY DEF HalfSnapshot
<1>2. frame' = [frame EXCEPT !.pc = "save_max", !.saved_rails = Append(@, s)]
  BY DEF SaveMin
<1>3. /\ t = impl.selected_targets[frame.i] /\ UNCHANGED <<sysfs, impl>>
      /\ frame.pc = "save_min" /\ frame.i \in DOMAIN impl.selected_targets
  BY DEF SelectedTarget, SaveMin, Local, More
<1> HIDE DEF s
<1>4. /\ frame'.pc = "save_max" /\ frame'.i = frame.i
      /\ frame'.saved_rails = Append(frame.saved_rails, s)
      /\ frame'.saved_tunables = frame.saved_tunables
  BY <1>2 DEF TypeInv, TypeOK, FrameType
<1>5. frame.saved_rails \in Seq(SavedRail) /\ Len(frame.saved_rails) = frame.i - 1
      /\ frame.i \in Nat \ {0}
  BY <1>3 DEF TypeInv, TypeOK, FrameType, Shape
<1>6. ASSUME NEW j \in DOMAIN frame'.saved_rails
      PROVE  \/ j = frame.i /\ frame'.saved_rails[j] = s
             \/ /\ j # frame.i /\ j \in DOMAIN frame.saved_rails
                /\ frame'.saved_rails[j] = frame.saved_rails[j]
  <2> DEFINE old == frame.saved_rails
  <2>1. old \in Seq(SavedRail) /\ Len(old) = frame.i - 1 /\ frame.i \in Nat \ {0}
        /\ frame'.saved_rails = Append(old, s) /\ j \in DOMAIN Append(old, s)
    BY <1>4, <1>5, <1>6
  <2> HIDE DEF old
  <2>2. j \in 1..(Len(old) + 1)
    BY <2>1
  <2>3. CASE j = Len(old) + 1
    BY <2>1, <2>3
  <2>4. CASE j \in 1..Len(old)
    BY <2>1, <2>4 DEF old
  <2> QED
    BY <2>1, <2>2, <2>3, <2>4
<1> QED
  BY <1>1, <1>3, <1>4, <1>6

LEMMA SaveMinStep ==
  ASSUME Inv, SaveMin
  PROVE  Saving'
<1>1. /\ \A j \in DOMAIN frame.saved_rails :
           frame.saved_rails[j] = Snapshot(impl.selected_targets[j], sysfs)
      /\ \A j \in DOMAIN frame.saved_tunables : SavedTunableOK(frame.saved_tunables[j], sysfs)
  BY InvTypes, MinSaved DEF Inv, Saving, SavePc
<1>2. ASSUME NEW j \in DOMAIN frame'.saved_rails
      PROVE  IF j = frame'.i
             THEN frame'.saved_rails[j] = HalfSnapshot(impl'.selected_targets[j], sysfs')
             ELSE frame'.saved_rails[j] = Snapshot(impl'.selected_targets[j], sysfs')
  BY <1>1, InvTypes, MinSaved
<1>3. \A j \in DOMAIN frame'.saved_tunables : SavedTunableOK(frame'.saved_tunables[j], sysfs')
  BY <1>1, InvTypes, MinSaved
<1> QED
  BY <1>2, <1>3, InvTypes, MinSaved DEF Saving

\* SaveMax completes the snapshot that SaveMin began.
LEMMA MaxSaved ==
  ASSUME TypeInv, SaveMax, frame.saved_rails[frame.i] = HalfSnapshot(SelectedTarget, sysfs)
  PROVE  /\ UNCHANGED <<sysfs, impl>> /\ frame.pc = "save_max" /\ frame'.pc = "save_min"
         /\ frame.i \in DOMAIN impl.selected_targets
         /\ frame'.saved_tunables = frame.saved_tunables
         /\ \A j \in DOMAIN frame'.saved_rails :
              \/ /\ j = frame.i
                 /\ frame'.saved_rails[j] = Snapshot(impl.selected_targets[j], sysfs)
              \/ /\ j # frame.i /\ j \in DOMAIN frame.saved_rails
                 /\ frame'.saved_rails[j] = frame.saved_rails[j]
<1> DEFINE t == SelectedTarget
           hi == IF WantMax(t) THEN sysfs[t.max_path] ELSE 0
           has == WantMax(t)
           half == frame.saved_rails[frame.i]
           s == [half EXCEPT !.prev_max = hi, !.has_max = has]
<1>1. t = impl.selected_targets[frame.i] /\ UNCHANGED <<sysfs, impl>> /\ frame.pc = "save_max"
  BY DEF SelectedTarget, SaveMax, Local
<1>2. /\ frame.saved_rails \in Seq(SavedRail) /\ frame.i \in Nat \ {0}
      /\ Len(frame.saved_rails) = frame.i /\ frame.i <= Len(impl.selected_targets)
      /\ impl.selected_targets \in Seq(RailTarget) /\ sysfs \in [Path -> Nat]
  BY <1>1 DEF TypeInv, TypeOK, FrameType, ImplType, Shape
<1>3. /\ frame.i \in DOMAIN frame.saved_rails /\ half \in SavedRail /\ t \in RailTarget
      /\ frame.i \in DOMAIN impl.selected_targets
  BY <1>1, <1>2
<1>4. half = HalfSnapshot(t, sysfs)
  OBVIOUS
<1>5. s = Snapshot(t, sysfs)
  <2>1. hi \in Nat /\ has \in BOOLEAN
    BY <1>2, <1>3 DEF WantMax, PathPresent, RailTarget
  <2> DEFINE lo == IF WantMin(t) THEN sysfs[t.min_path] ELSE 0
  <2>2. /\ half.min_path = t.min_path /\ half.max_path = t.max_path
        /\ half.prev_min = lo /\ half.has_min = WantMin(t)
    <3> HIDE DEF half, t
    <3> QED  BY <1>4 DEF HalfSnapshot
  <2>3. Snapshot(t, sysfs) = [min_path |-> t.min_path, max_path |-> t.max_path,
                              prev_min |-> lo, prev_max |-> hi,
                              has_min |-> WantMin(t), has_max |-> has]
    <3> HIDE DEF t
    <3> QED  BY DEF Snapshot
  <2>4. s = [half EXCEPT !.prev_max = hi, !.has_max = has]
    OBVIOUS
  <2> HIDE DEF half, hi, has, t, lo, s
  <2>5. /\ s \in SavedRail /\ s.min_path = half.min_path /\ s.max_path = half.max_path
        /\ s.prev_min = half.prev_min /\ s.has_min = half.has_min
        /\ s.prev_max = hi /\ s.has_max = has
    BY <1>3, <2>1, <2>4 DEF SavedRail
  <2>6. s = [min_path |-> s.min_path, max_path |-> s.max_path, prev_min |-> s.prev_min,
             prev_max |-> s.prev_max, has_min |-> s.has_min, has_max |-> s.has_max]
    BY <2>5 DEF SavedRail
  <2> QED
    BY <2>2, <2>3, <2>5, <2>6
<1>6. /\ frame'.pc = "save_min" /\ frame'.saved_rails = [frame.saved_rails EXCEPT ![frame.i] = s]
      /\ frame'.saved_tunables = frame.saved_tunables
  <2>1. frame' = [frame EXCEPT !.pc = "save_min", !.i = @ + 1,
                               !.saved_rails = [@ EXCEPT ![frame.i] = s]]
    BY DEF SaveMax
  <2> HIDE DEF s
  <2> QED
    BY <2>1 DEF TypeInv, TypeOK, FrameType
<1> HIDE DEF s, t
<1>7. ASSUME NEW j \in DOMAIN frame'.saved_rails
      PROVE  \/ j = frame.i /\ frame'.saved_rails[j] = s
             \/ /\ j # frame.i /\ j \in DOMAIN frame.saved_rails
                /\ frame'.saved_rails[j] = frame.saved_rails[j]
  BY <1>3, <1>6, <1>7
<1> QED
  BY <1>1, <1>3, <1>5, <1>6, <1>7

LEMMA SaveMaxStep ==
  ASSUME Inv, SaveMax
  PROVE  Saving'
<1>1. frame.pc = "save_max" /\ TypeInv /\ frame.i \in DOMAIN frame.saved_rails
  BY InvTypes DEF SaveMax, TypeInv, Shape, FrameType
<1>2. /\ \A j \in DOMAIN frame.saved_rails :
           IF j = frame.i
           THEN frame.saved_rails[j] = HalfSnapshot(impl.selected_targets[j], sysfs)
           ELSE frame.saved_rails[j] = Snapshot(impl.selected_targets[j], sysfs)
      /\ \A j \in DOMAIN frame.saved_tunables : SavedTunableOK(frame.saved_tunables[j], sysfs)
  BY <1>1 DEF Inv, Saving, SavePc
<1>3. frame.saved_rails[frame.i] = HalfSnapshot(SelectedTarget, sysfs)
  BY <1>1, <1>2 DEF SelectedTarget
<1>4. \A j \in DOMAIN frame'.saved_rails :
        frame'.saved_rails[j] = Snapshot(impl'.selected_targets[j], sysfs')
  BY <1>1, <1>2, <1>3, MaxSaved
<1>5. \A j \in DOMAIN frame'.saved_tunables : SavedTunableOK(frame'.saved_tunables[j], sysfs')
  BY <1>1, <1>2, <1>3, MaxSaved
<1> QED
  BY <1>1, <1>3, <1>4, <1>5, MaxSaved DEF Saving

LEMMA SaveTunableStep ==
  ASSUME Inv, SaveTunable
  PROVE  Saving'
<1> DEFINE path == SelectedTunable.sysfs_path
           u == [sysfs_path |-> path, prev_value |-> sysfs[path]]
           old == frame.saved_tunables
           saved == IF PathPresent(path) THEN Append(old, u) ELSE old
<1>1. /\ UNCHANGED <<sysfs, impl>> /\ frame.pc = "save_tunable"
      /\ frame.i \in DOMAIN impl.selected_tunables
      /\ path = impl.selected_tunables[frame.i].sysfs_path
  BY DEF SelectedTunable, SaveTunable, Local, More
<1>2. /\ old \in Seq(SavedTunable) /\ frame.i \in Nat \ {0}
      /\ impl.selected_tunables \in Seq(Tunable)
  BY InvTypes DEF FrameType, ImplType
<1>3. /\ \A j \in DOMAIN frame.saved_rails :
           frame.saved_rails[j] = Snapshot(impl.selected_targets[j], sysfs)
      /\ \A j \in DOMAIN old : SavedTunableOK(old[j], sysfs)
      /\ \A j \in DOMAIN impl.selected_tunables :
           j < frame.i /\ PathPresent(impl.selected_tunables[j].sysfs_path) =>
             \E k \in DOMAIN old :
               old[k].sysfs_path = impl.selected_tunables[j].sysfs_path
  BY <1>1 DEF Inv, Saving, SavePc
<1>4. frame' = [frame EXCEPT !.i = @ + 1, !.saved_tunables = saved]
  BY DEF SaveTunable
<1>5. SavedTunableOK(u, sysfs) /\ u.sysfs_path = path
  <2>1. path \in TunablePaths
    BY <1>1 DEF Inv, SelectionOK
  <2> HIDE DEF path
  <2> QED  BY <2>1 DEF SavedTunableOK
<1> HIDE DEF path, u, old
<1>6. /\ frame'.pc = "save_tunable" /\ frame'.i = frame.i + 1
      /\ frame'.saved_rails = frame.saved_rails /\ frame'.saved_tunables = saved
  <2> HIDE DEF saved
  <2> QED
    BY <1>1, <1>4, InvTypes DEF FrameType
\* Nothing saved is lost, what is added is right, and so is what it is added for.
<1>7. /\ \A j \in DOMAIN old : j \in DOMAIN saved /\ saved[j] = old[j]
      /\ \A j \in DOMAIN saved : j \in DOMAIN old \/ saved[j] = u
      /\ PathPresent(path) => \E k \in DOMAIN saved : saved[k] = u
  <2>1. CASE PathPresent(path)
    <3>1. saved = Append(old, u)
      BY <2>1
    <3> HIDE DEF saved
    <3>2. /\ Len(saved) = Len(old) + 1 /\ saved[Len(old) + 1] = u
          /\ Len(old) \in Nat /\ DOMAIN old = 1..Len(old) /\ DOMAIN saved = 1..(Len(old) + 1)
          /\ \A j \in 1..Len(old) : saved[j] = old[j]
      BY <1>2, <3>1
    <3> QED
      BY <3>2
  <2>2. CASE ~PathPresent(path)
    BY <2>2
  <2> QED
    BY <2>1, <2>2
<1> HIDE DEF saved
<1>8. \A j \in DOMAIN saved : SavedTunableOK(saved[j], sysfs)
  BY <1>3, <1>5, <1>7
<1>9. ASSUME NEW j \in DOMAIN impl.selected_tunables, j < frame.i + 1,
             PathPresent(impl.selected_tunables[j].sysfs_path)
      PROVE  \E k \in DOMAIN saved : saved[k].sysfs_path = impl.selected_tunables[j].sysfs_path
  <2>1. CASE j = frame.i
    BY <1>1, <1>5, <1>7, <1>9, <2>1
  <2>2. CASE j # frame.i
    <3>1. j \in Nat
      BY <1>2
    <3>2. j < frame.i
      BY <1>2, <1>9, <2>2, <3>1
    <3> QED
      BY <1>3, <1>7, <1>9, <3>2
  <2> QED
    BY <2>1, <2>2
<1>10. \A j \in DOMAIN frame'.saved_rails :
         frame'.saved_rails[j] = Snapshot(impl'.selected_targets[j], sysfs')
  BY <1>1, <1>3, <1>6
<1>11. \A j \in DOMAIN frame'.saved_tunables : SavedTunableOK(frame'.saved_tunables[j], sysfs')
  BY <1>1, <1>6, <1>8
<1>12. \A j \in DOMAIN impl'.selected_tunables :
         j < frame'.i /\ PathPresent(impl'.selected_tunables[j].sysfs_path) =>
           \E k \in DOMAIN frame'.saved_tunables :
             frame'.saved_tunables[k].sysfs_path = impl'.selected_tunables[j].sysfs_path
  BY <1>1, <1>6, <1>9
<1> QED
  BY <1>6, <1>10, <1>11, <1>12 DEF Saving

LEMMA SaveRailsEndStep ==
  ASSUME Inv, SaveRailsEnd
  PROVE  Saving'
<1>1. /\ UNCHANGED <<sysfs, impl>> /\ frame.pc = "save_min" /\ frame' = At("save_tunable", 1)
  BY DEF SaveRailsEnd, Local, At
<1>2. /\ frame'.pc = "save_tunable" /\ frame'.i = 1 /\ frame'.saved_rails = frame.saved_rails
      /\ frame'.saved_tunables = frame.saved_tunables
  <2>1. "save_tunable" \in SavePc \cup WritePc /\ 1 \in Nat \ {0} /\ frame \in FrameType
    BY InvTypes DEF SavePc
  <2> QED
    BY <1>1, <2>1, AtTyped
<1>3. /\ \A j \in DOMAIN frame.saved_rails :
           frame.saved_rails[j] = Snapshot(impl.selected_targets[j], sysfs)
      /\ \A j \in DOMAIN frame.saved_tunables : SavedTunableOK(frame.saved_tunables[j], sysfs)
  BY <1>1 DEF Inv, Saving, SavePc
<1>4. \A j \in DOMAIN frame'.saved_rails :
        frame'.saved_rails[j] = Snapshot(impl'.selected_targets[j], sysfs')
  BY <1>1, <1>2, <1>3
<1>5. \A j \in DOMAIN frame'.saved_tunables : SavedTunableOK(frame'.saved_tunables[j], sysfs')
  BY <1>1, <1>2, <1>3
<1>6. ASSUME NEW j \in DOMAIN impl'.selected_tunables PROVE ~(j < frame'.i)
  <2>1. impl.selected_tunables \in Seq(Tunable)
    BY InvTypes DEF ImplType
  <2> QED
    BY <1>1, <1>2, <1>6, <2>1
<1> QED
  BY <1>2, <1>4, <1>5, <1>6 DEF Saving

\* The point where SetClocks begins to write: what it found is what it owes, and
\* the local vectors hold all that it will write.
LEMMA SaveTunablesEndStep ==
  ASSUME Inv, HNext, SaveTunablesEnd
  PROVE  RestInv'
<1>1. /\ UNCHANGED <<sysfs, impl>> /\ frame.pc = "save_tunable"
      /\ frame.i \notin DOMAIN impl.selected_tunables /\ frame' = At("rail", 1)
  BY DEF SaveTunablesEnd, Local, More, At
<1>2. /\ frame'.pc = "rail" /\ frame'.i = 1 /\ frame'.op = "set"
      /\ frame'.saved_rails = frame.saved_rails
      /\ frame'.saved_tunables = frame.saved_tunables
  <2>1. "rail" \in SavePc \cup WritePc /\ 1 \in Nat \ {0} /\ frame \in FrameType
        /\ frame.op = "set"
    BY <1>1, InvTypes DEF WritePc, SavePc, TypeInv, TypeOK
  <2> QED
    BY <1>1, <2>1, AtTyped
<1>3. baseline' = sysfs'
  BY <1>1, <1>2 DEF HNext, BeginsWriting
<1>4. /\ Setting' /\ frame'.pc \in WritePc /\ frame'.pc \notin SavePc
      /\ Owner' = frame' /\ Rails' = impl.selected_targets
  BY <1>1, <1>2 DEF Setting, Owner, Rails, WritePc, SavePc
<1>5. DOMAIN frame.saved_rails = DOMAIN impl.selected_targets
  <2>1. /\ frame.saved_rails \in Seq(SavedRail) /\ impl.selected_targets \in Seq(RailTarget)
        /\ Len(frame.saved_rails) = Len(impl.selected_targets)
    BY <1>1, InvTypes DEF FrameType, ImplType, TypeInv, Shape
  <2> QED
    BY <2>1
<1>6. /\ \A j \in DOMAIN frame.saved_rails :
           frame.saved_rails[j] = Snapshot(impl.selected_targets[j], sysfs)
      /\ \A j \in DOMAIN frame.saved_tunables : SavedTunableOK(frame.saved_tunables[j], sysfs)
      /\ \A j \in DOMAIN impl.selected_tunables :
           j < frame.i /\ PathPresent(impl.selected_tunables[j].sysfs_path) =>
             \E k \in DOMAIN frame.saved_tunables :
               frame.saved_tunables[k].sysfs_path = impl.selected_tunables[j].sysfs_path
  BY <1>1 DEF Inv, Saving, SavePc
<1>7. \A j \in DOMAIN impl.selected_targets : impl.selected_targets[j] \in AllTargets
  BY DEF Inv, SelectionOK
<1>8. OwnerOK'
  <2>1. \A j \in DOMAIN frame'.saved_rails :
          \E t \in AllTargets : frame'.saved_rails[j] = Snapshot(t, baseline')
    BY <1>1, <1>2, <1>3, <1>5, <1>6, <1>7
  <2>2. \A j \in DOMAIN frame'.saved_tunables :
          SavedTunableOK(frame'.saved_tunables[j], baseline')
    BY <1>1, <1>2, <1>3, <1>6
  <2> QED
    BY <1>4, <2>1, <2>2 DEF OwnerOK
<1>9. WritesSaved'
  <2>1. ASSUME NEW j \in DOMAIN impl.selected_targets
        PROVE  LET t == impl.selected_targets[j]
               IN  /\ WantMin(t) => SavedPath(t.min_path)'
                   /\ WantMax(t) => SavedPath(t.max_path)'
    <3> DEFINE t == impl.selected_targets[j]
               s == frame'.saved_rails[j]
    <3>1. j \in DOMAIN frame'.saved_rails /\ s = Snapshot(t, sysfs)
      BY <1>2, <1>5, <1>6
    <3> HIDE DEF s
    <3>2. /\ s.min_path = t.min_path /\ s.max_path = t.max_path
          /\ s.has_min = WantMin(t) /\ s.has_max = WantMax(t)
      BY <3>1 DEF Snapshot
    <3> QED
      BY <1>1, <1>4, <3>1, <3>2 DEF SavedPath, s
  <2>2. ASSUME NEW j \in DOMAIN impl.selected_tunables,
               PathPresent(impl.selected_tunables[j].sysfs_path)
        PROVE  SavedPath(impl.selected_tunables[j].sysfs_path)'
    <3>1. j < frame.i
      <4>1. impl.selected_tunables \in Seq(Tunable) /\ frame.i \in Nat \ {0}
        BY InvTypes DEF ImplType
      <4> QED
        BY <1>1, <4>1
    <3> QED
      BY <1>1, <1>2, <1>4, <1>6, <2>2, <3>1 DEF SavedPath
  <2> QED
    BY <1>1, <1>4, <2>1, <2>2 DEF WritesSaved, Tunables
<1>10. DeadEmpty' /\ Saving' /\ MidRail' /\ Restoring'
  BY <1>2, <1>4 DEF DeadEmpty, Saving, MidRail, Restoring
<1>11. SelectionOK' /\ Good(sysfs)' /\ Good(baseline)' /\ Covered'
  BY <1>1, <1>3 DEF Inv, SelectionOK, Good, RailsOrdered, Covered
<1> QED
  BY <1>8, <1>9, <1>10, <1>11 DEF RestInv

LEMMA SaveSteps ==
  ASSUME Inv, HNext, Save
  PROVE  RestInv'
<1>1. CASE SaveTunablesEnd
  BY <1>1, SaveTunablesEndStep
<1>2. CASE SaveMin \/ SaveMax \/ SaveRailsEnd \/ SaveTunable
  <2>1. UNCHANGED <<sysfs, impl>> /\ frame.pc \in SavePc /\ frame'.pc \in SavePc
    <3>1. /\ UNCHANGED <<sysfs, impl>> /\ frame.pc \in SavePc
      BY <1>2 DEF SaveMin, SaveMax, SaveRailsEnd, SaveTunable, Local, SavePc
    <3>2. CASE SaveMin
      BY <3>1, <3>2, InvTypes DEF SaveMin, FrameType, SavePc
    <3>3. CASE SaveMax
      BY <3>1, <3>3, InvTypes DEF SaveMax, FrameType, SavePc
    <3>4. CASE SaveRailsEnd
      BY <3>1, <3>4, InvTypes DEF SaveRailsEnd, FrameType, SavePc
    <3>5. CASE SaveTunable
      <4> DEFINE saved == IF PathPresent(SelectedTunable.sysfs_path)
                          THEN Append(frame.saved_tunables,
                                      [sysfs_path |-> SelectedTunable.sysfs_path,
                                       prev_value |-> sysfs[SelectedTunable.sysfs_path]])
                          ELSE frame.saved_tunables
      <4>1. frame.pc = "save_tunable" /\ frame' = [frame EXCEPT !.i = @ + 1, !.saved_tunables = saved]
        BY <3>5 DEF SaveTunable
      <4> HIDE DEF saved
      <4> QED
        BY <3>1, <4>1, InvTypes DEF FrameType, SavePc
    <3> QED
      BY <1>2, <3>1, <3>2, <3>3, <3>4, <3>5
  <2>2. frame.pc \notin WritePc
    BY <2>1 DEF SavePc, WritePc
  <2>3. UNCHANGED baseline
    BY <2>1, <2>2 DEF HNext, BeginsWriting, OwesNothing, SavePc
  <2>4. Saving'
    BY <1>2, SaveMinStep, SaveMaxStep, SaveRailsEndStep, SaveTunableStep
  <2> QED
    BY <2>1, <2>2, <2>3, <2>4, SavingOn
<1>3. CASE SaveFails
  <2>1. UNCHANGED <<sysfs, impl>> /\ frame.pc \in SavePc /\ frame'.pc = "idle"
    BY <1>3, ReturnedTyped DEF SaveFails, Local, SavePc, Ops
  <2>2. frame.pc \notin WritePc
    BY <2>1 DEF SavePc, WritePc
  <2>3. UNCHANGED baseline
    BY <2>1 DEF HNext, BeginsWriting, OwesNothing, WritesEnd, SavePc
  <2>4. SelectionOK' /\ DeadEmpty'
    BY <2>1 DEF Inv, SelectionOK, DeadEmpty
  <2> QED
    BY <2>1, <2>2, <2>3, <2>4, OwnerIsImpl, AtRest
<1> QED
  BY <1>1, <1>2, <1>3 DEF Save

-------------------------------------------------------------------------------
(* The calls. *)

\* The two restoring calls begin to write: what is saved is the object's.
LEMMA RestoreBegins ==
  ASSUME Inv, HNext, Idle, NEW op \in {"unset", "dtor"}, frame' = Enter("rail", op),
         UNCHANGED <<sysfs, impl>>
  PROVE  RestInv'
<1>1. frame'.pc = "rail" /\ frame'.op = op /\ frame'.i = 1
  BY DEF Enter
<1>2. UNCHANGED baseline
  BY <1>1 DEF HNext, BeginsWriting, OwesNothing, Idle
<1>3. ~Setting' /\ frame'.pc \in WritePc /\ frame'.pc \notin SavePc /\ frame.pc \notin WritePc
  BY <1>1 DEF Setting, WritePc, SavePc, Idle
<1>4. SameOwner
  BY <1>3, OwnerIsImpl DEF SameOwner, Owner
<1>5. OwnerOK' /\ \A p : SavedPath(p)' <=> SavedPath(p)
  BY <1>2, <1>4, OwnerKept
<1>6. Owner' = impl
  BY <1>3 DEF Owner
<1>7. ASSUME NEW j \in DOMAIN impl.saved_rails
      PROVE  LET r == Restore(impl.saved_rails[j])
             IN  /\ WantMin(r) => SavedPath(r.min_path)'
                 /\ WantMax(r) => SavedPath(r.max_path)'
  <2> DEFINE s == impl.saved_rails[j]
  <2>1. /\ Restore(s).min_path = s.min_path /\ Restore(s).max_path = s.max_path
        /\ WantMin(Restore(s)) => s.has_min
        /\ WantMax(Restore(s)) => s.has_max
    <3> HIDE DEF s
    <3> QED  BY DEF Restore, WantMin, WantMax
  <2> QED
    BY <1>6, <2>1 DEF SavedPath
<1>8. WritesSaved'
  <2>1. /\ Rails' = [j \in DOMAIN impl.saved_rails |-> Restore(impl.saved_rails[j])]
        /\ DOMAIN Tunables' = DOMAIN impl.saved_tunables
        /\ \A j \in DOMAIN impl.saved_tunables :
             Tunables'[j].sysfs_path = impl.saved_tunables[j].sysfs_path
    BY <1>3 DEF Rails, Tunables, Restore
  <2>2. \A j \in DOMAIN impl.saved_tunables : SavedPath(impl.saved_tunables[j].sysfs_path)'
    BY <1>6 DEF SavedPath
  <2> QED
    BY <1>7, <2>1, <2>2 DEF WritesSaved
<1>9. Restoring'
  <2>1. /\ impl.saved_rails \in Seq(SavedRail)
    BY InvTypes DEF ImplType
  <2>2. \A j \in DOMAIN impl'.saved_rails : ~(j < frame'.i)
    BY <1>1, <2>1
  <2> QED
    BY <1>1, <2>2 DEF Restoring
<1>10. DeadEmpty' /\ Saving' /\ MidRail'
  BY <1>1, <1>3 DEF DeadEmpty, Saving, MidRail
<1>11. SelectionOK' /\ Good(sysfs)' /\ Good(baseline)' /\ Covered'
  BY <1>2, <1>5 DEF Inv, SelectionOK, Good, RailsOrdered, Covered
<1> QED
  BY <1>5, <1>8, <1>9, <1>10, <1>11 DEF RestInv

\* A profile of the active device is one of the tables'.
LEMMA ProfileSelected ==
  ASSUME NEW p \in Profiles
  PROVE  /\ \A j \in DOMAIN p.targets : p.targets[j] \in AllTargets
         /\ \A j \in DOMAIN p.tunables : p.tunables[j].sysfs_path \in TunablePaths
BY DEF AllTargets, TunablePaths

LEMMA ActiveProfiles ==
  ASSUME NeverAborts
  PROVE  /\ \A j \in DOMAIN GetDeviceConfig.modes :
              LET m == GetDeviceConfig.modes[j]
              IN  [targets |-> m.targets, tunables |-> m.tunables] \in Profiles
         /\ \A j \in DOMAIN GetDeviceConfig.custom_profiles :
              LET m == GetDeviceConfig.custom_profiles[j]
              IN  [targets |-> m.targets, tunables |-> m.tunables] \in Profiles
<1>1. FindEntry(g_active_device) \in DOMAIN kDeviceRegistry
  BY ConfigType
<1> QED
  BY <1>1 DEF Profiles, GetDeviceConfig

LEMMA SelectStep ==
  ASSUME Inv, HNext, NEW op \in Ops, NEW table, NEW k, Select(op, table, k),
         k # 0 => [targets |-> table[k].targets, tunables |-> table[k].tunables] \in Profiles
  PROVE  RestInv'
<1>1. /\ frame.pc = "idle" /\ frame'.pc = "idle" /\ UNCHANGED sysfs
  BY ReturnedTyped DEF Select, Idle
<1>2. UNCHANGED baseline
  BY <1>1 DEF HNext, BeginsWriting, OwesNothing, WritesEnd
<1>3. /\ impl'.saved_rails = impl.saved_rails /\ impl'.saved_tunables = impl.saved_tunables
      /\ SelectionOK'
  <2>1. CASE k # 0
    <3> DEFINE p == [targets |-> table[k].targets, tunables |-> table[k].tunables]
    <3>1. /\ impl'.saved_rails = impl.saved_rails /\ impl'.saved_tunables = impl.saved_tunables
          /\ impl'.selected_targets = p.targets /\ impl'.selected_tunables = p.tunables
      BY <2>1, InvTypes DEF Select, ImplType
    <3>2. p \in Profiles
      BY <2>1
    <3> HIDE DEF p
    <3> QED
      BY <3>1, <3>2, ProfileSelected DEF SelectionOK
  <2>2. CASE k = 0
    BY <2>2 DEF Select, Inv, SelectionOK
  <2> QED
    BY <2>1, <2>2
<1>4. DeadEmpty' /\ Owner = impl
  BY <1>1, OwnerIsImpl DEF DeadEmpty, WritePc
<1> QED
  BY <1>1, <1>2, <1>3, <1>4, AtRest

LEMMA CallSteps ==
  ASSUME Inv, HNext, Call \/ Crash
  PROVE  RestInv'
<1>1. CASE \/ \E device \in Device : SetActiveDevice(device)
           \/ \E soc_name \in SocName : SetActiveDeviceByName(soc_name)
  <2>1. frame'.pc = frame.pc /\ frame.pc \in {"idle", "dead"} /\ UNCHANGED <<sysfs, impl>>
    BY <1>1, InvTypes, DeviceStepTypes DEF Running
  <2>2. Owner = impl /\ SelectionOK' /\ DeadEmpty'
    BY <2>1, OwnerIsImpl DEF WritePc, Inv, SelectionOK, DeadEmpty, NewImpl
  <2>3. CASE frame.pc = "idle"
    <3>1. UNCHANGED baseline
      BY <2>1, <2>3 DEF HNext, BeginsWriting, OwesNothing, WritesEnd
    <3> QED
      BY <2>1, <2>2, <3>1, AtRest
  <2>4. CASE frame.pc = "dead"
    <3>1. baseline' = sysfs'
      BY <2>1, <2>4 DEF HNext, OwesNothing
    <3>2. impl'.saved_rails = <<>> /\ impl'.saved_tunables = <<>>
      BY <2>1, <2>4 DEF Inv, DeadEmpty, NewImpl
    <3> QED
      BY <2>1, <2>2, <3>1, <3>2, AtRest
  <2> QED
    BY <2>1, <2>3, <2>4
<1>2. CASE \E mode \in FrequencyMode : SetFrequencyMode(mode)
  <2>1. PICK mode \in FrequencyMode : SetFrequencyMode(mode)
    BY <1>2
  <2>2. FindMode(mode) # 0 => FindMode(mode) \in DOMAIN GetDeviceConfig.modes
    BY ConfigType, FoundMode DEF Inv
  <2> DEFINE table == GetDeviceConfig.modes
             k == FindMode(mode)
  <2>3. k # 0 => [targets |-> table[k].targets, tunables |-> table[k].tunables] \in Profiles
    BY <2>2, ActiveProfiles DEF Inv
  <2>4. Select("mode", table, k)
    BY <2>1 DEF SetFrequencyMode
  <2> HIDE DEF table, k
  <2> QED
    BY <2>3, <2>4, SelectStep DEF Ops
<1>3. CASE \E id \in CustomId : SetFrequencyCustomId(id)
  <2>1. PICK id \in CustomId : SetFrequencyCustomId(id)
    BY <1>3
  <2>2. FindCustom(id) # 0 => FindCustom(id) \in DOMAIN GetDeviceConfig.custom_profiles
    BY ConfigType, FoundCustom DEF Inv
  <2> DEFINE table == GetDeviceConfig.custom_profiles
             k == FindCustom(id)
  <2>3. k # 0 => [targets |-> table[k].targets, tunables |-> table[k].tunables] \in Profiles
    BY <2>2, ActiveProfiles DEF Inv
  <2>4. Select("custom", table, k)
    BY <2>1 DEF SetFrequencyCustomId
  <2> HIDE DEF table, k
  <2> QED
    BY <2>3, <2>4, SelectStep DEF Ops
<1>4. ASSUME frame.pc \in {"idle", "dead"}, frame'.pc = "idle", UNCHANGED <<sysfs, impl>>
      PROVE  RestInv'
  <2>1. UNCHANGED baseline /\ Owner = impl
    BY <1>4, OwnerIsImpl DEF HNext, BeginsWriting, OwesNothing, WritesEnd, WritePc
  <2>2. SelectionOK' /\ DeadEmpty'
    BY <1>4 DEF Inv, SelectionOK, DeadEmpty
  <2> QED
    BY <1>4, <2>1, <2>2, AtRest
<1>5. ASSUME frame' = Dead, impl' = NewImpl, UNCHANGED sysfs
      PROVE  RestInv'
  <2>1. frame'.pc = "dead" /\ baseline' = sysfs'
    BY <1>5 DEF Dead, Enter, HNext, OwesNothing
  <2>2. /\ impl'.selected_targets = <<>> /\ impl'.selected_tunables = <<>>
        /\ impl'.saved_rails = <<>> /\ impl'.saved_tunables = <<>>
    BY <1>5 DEF NewImpl
  <2>3. SelectionOK' /\ DeadEmpty'
    BY <1>5, <2>2 DEF SelectionOK, DeadEmpty
  <2> QED
    BY <1>5, <2>1, <2>2, <2>3, AtRest
<1>6. CASE SetClocks
  <2>1. CASE frame' = Returned("set", FALSE)
    BY <1>4, <1>6, <2>1, ReturnedTyped DEF SetClocks, Idle, Ops
  <2>2. CASE frame' = Enter("save_min", "set")
    <3>1. /\ frame'.pc = "save_min" /\ frame'.saved_rails = <<>> /\ frame'.saved_tunables = <<>>
          /\ frame.pc = "idle" /\ UNCHANGED <<sysfs, impl>>
      <4>1. frame.pc = "idle" /\ UNCHANGED <<sysfs, impl>>
        BY <1>6 DEF SetClocks, Idle
      <4> QED
        BY <2>2, <4>1 DEF Enter
    <3>2. UNCHANGED baseline
      BY <3>1 DEF HNext, BeginsWriting, OwesNothing
    <3>3. Saving'
      BY <3>1 DEF Saving
    <3>4. frame.pc \notin WritePc /\ frame'.pc \in SavePc
      BY <3>1 DEF WritePc, SavePc
    <3> QED
      BY <3>1, <3>2, <3>3, <3>4, SavingOn
  <2> QED
    BY <1>6, <2>1, <2>2 DEF SetClocks
<1>7. CASE UnsetClocks
  <2>1. CASE frame' = Returned("unset", FALSE)
    BY <1>4, <1>7, <2>1, ReturnedTyped DEF UnsetClocks, Local, Idle, Ops
  <2>2. CASE frame' = Enter("rail", "unset")
    BY <1>7, <2>2, RestoreBegins DEF UnsetClocks, Local
  <2> QED
    BY <1>7, <2>1, <2>2 DEF UnsetClocks
<1>8. CASE Destroy
  BY <1>5, <1>8, RestoreBegins DEF Destroy
<1>9. CASE Construct
  BY <1>4, <1>9 DEF Construct, Enter, Local
<1>10. CASE Crash
  BY <1>5, <1>10 DEF Crash
<1> QED
  BY <1>1, <1>2, <1>3, <1>6, <1>7, <1>8, <1>9, <1>10 DEF Call

-------------------------------------------------------------------------------
(* The theorems. *)

LEMMA StepInv == Inv /\ [HNext]_hvars => Inv'
<1> SUFFICES ASSUME Inv, [HNext]_hvars PROVE Inv'
  OBVIOUS
<1>1. TypeInv'
  BY InvTypes, StepTypes
<1>2. RestInv'
  <2>1. CASE HNext
    BY <2>1, CallSteps, SaveSteps, WriteSteps DEF HNext, Next, Step
  <2>2. CASE UNCHANGED hvars
    <3>1. UNCHANGED <<sysfs, impl, frame, baseline>>
      BY <2>2 DEF hvars
    <3>2. DeadEmpty' /\ SelectionOK' /\ Good(sysfs)' /\ Good(baseline)' /\ Saving'
      BY <3>1 DEF Inv, DeadEmpty, SelectionOK, Good, RailsOrdered, Saving
    <3>3. Owner' = Owner /\ Rails' = Rails /\ Tunables' = Tunables /\ Rail' = Rail
          /\ (Setting' <=> Setting)
      BY <3>1, RailsKept DEF Owner, Rail, Setting
    <3>4. OwnerOK' /\ \A p : SavedPath(p)' <=> SavedPath(p)
      BY <3>1, <3>3, OwnerKept DEF SameOwner
    <3>5. WritesSaved' /\ Covered'
      BY <3>1, <3>3, <3>4 DEF Inv, WritesSaved, Covered
    <3>6. MidRail' /\ Restoring'
      BY <3>1, <3>3 DEF Inv, MidRail, MinGoesFirst, Restoring, RailBack, Back
    <3> QED
      BY <3>2, <3>4, <3>5, <3>6 DEF RestInv
  <2> QED
    BY <2>1, <2>2
<1>3. (TypeInv /\ RestInv)'
  BY <1>1, <1>2
<1> QED
  BY <1>3, InvParts, PTL

\* The inductive invariant holds in every reachable state, for all well-formed
\* tables, any content of sysfs that the kernel admits and any set of nodes on
\* which calls may fail.
THEOREM InvInvariant == HSpec => []Inv
<1> QED
  BY InitInv, StepInv, PTL DEF HSpec

\* What the last SetClocks to reach its writes had found stays saved until its restore
\* ends, whatever fails within a call, and whatever is selected meanwhile.  (A further
\* SetClocks replaces it; an UnsetClocks that reports a failure gives up the rest.)
THEOREM AlwaysRecoverable == HSpec => []Recoverable
<1> QED
  BY InvInvariant, InvRecoverable, PTL

\* A restore that is about to report success has put back every node.
THEOREM RestoresExactly == HSpec => []RestoreExact
<1> QED
  BY InvInvariant, InvRestoreExact, PTL

\* A restore that met failures has put back every node on a healthy rail.
THEOREM RestoresHealthyRails == HSpec => []HealthyRestored
<1> QED
  BY InvInvariant, InvHealthyRestored, PTL

\* ApplyRail never makes a write the kernel refuses, unless it could not read the
\* minimum.
THEOREM OrdersItsWrites == HSpec => []WritesOrdered
<1> QED
  BY InvInvariant, InvOrdered, PTL

-------------------------------------------------------------------------------
(* AppliedExact.  The nodes of one profile are apart. *)

LEMMA TargetsApart ==
  ASSUME SelectionApart, NEW j \in DOMAIN impl.selected_targets,
         NEW k \in DOMAIN impl.selected_targets, j # k
  PROVE  LET s == impl.selected_targets[j]
             t == impl.selected_targets[k]
         IN  {s.min_path, s.max_path} \cap {t.min_path, t.max_path} \subseteq {NoPath}
BY DEF SelectionApart, NoOverlap

LEMMA TunablesApart ==
  ASSUME SelectionApart, NEW j \in DOMAIN impl.selected_tunables,
         NEW k \in DOMAIN impl.selected_tunables, j # k
  PROVE  LET s == impl.selected_tunables[j]
             t == impl.selected_tunables[k]
         IN  /\ s.name # t.name
             /\ s.sysfs_path # t.sysfs_path \/ s.sysfs_path = NoPath
BY DEF SelectionApart, NoOverlap

\* A write to another node leaves a target as it was.
LEMMA TargetKept ==
  ASSUME NEW t, NEW p, NEW v, sysfs \in [Path -> Nat], WriteSucceeds(p, v),
         WantMin(t) => t.min_path \in Path /\ t.min_path # p,
         WantMax(t) => t.max_path \in Path /\ t.max_path # p,
         TargetHolds(t, sysfs)
  PROVE  TargetHolds(t, sysfs')
BY DEF TargetHolds, WriteSucceeds

LEMMA SelectedTargets ==
  ASSUME Inv, NEW j \in DOMAIN impl.selected_targets
  PROVE  LET t == impl.selected_targets[j]
         IN  /\ WF(t)
             /\ WantMin(t) => t.min_path \in Path /\ t.min_path \in RailNodes
             /\ WantMax(t) => t.max_path \in Path /\ t.max_path \in RailNodes
<1>1. impl.selected_targets[j] \in AllTargets
  BY DEF Inv, SelectionOK
<1> QED
  BY <1>1, TargetWF, WantedNodes

LEMMA SelectedTunables ==
  ASSUME Inv, NEW j \in DOMAIN impl.selected_tunables
  PROVE  impl.selected_tunables[j] \in Tunable
BY InvTypes DEF ImplType

\* GetTunable finds each tunable by its name.
LEMMA TunableFound ==
  ASSUME Inv, SelectionApart, NEW j \in DOMAIN impl.selected_tunables, NEW fallback
  PROVE  LET t == impl.selected_tunables[j] IN GetTunable(t.name, fallback) = t.value
<1> DEFINE tunables == impl.selected_tunables
           t == tunables[j]
           I == {i \in 1..Len(tunables) : tunables[i].name = t.name}
<1>1. tunables \in Seq(Tunable)
  BY InvTypes DEF ImplType
<1>2. j \in 1..Len(tunables) /\ DOMAIN tunables = 1..Len(tunables)
  BY <1>1
<1>3. I = {j}
  BY <1>2, TunablesApart
<1>4. FindTunable(t.name) = IF I # {} THEN Min(I) ELSE 0
  BY DEF FindTunable, SelectInSeq
<1>5. Min(I) \in I
  <2>1. I \in SUBSET Nat /\ I # {}
    BY <1>2, <1>3
  <2> HIDE DEF I
  <2> QED
    BY <2>1, MinOfNats
<1>6. FindTunable(t.name) = j
  BY <1>3, <1>4, <1>5
<1>7. j # 0
  BY <1>1, <1>2
<1> QED
  BY <1>6, <1>7 DEF GetTunable, HasTunable

LEMMA AppliedGivesExact == Inv /\ AppliedInv => AppliedExact
<1> SUFFICES ASSUME Inv, SelectionApart, Applied, Idle, frame.op = "set", frame.ok
             PROVE  /\ \A j \in DOMAIN impl.selected_targets :
                         TargetHolds(impl.selected_targets[j], sysfs)
                    /\ \A j \in DOMAIN impl.selected_tunables :
                         LET t == impl.selected_tunables[j]
                         IN  PathPresent(t.sysfs_path) =>
                               /\ sysfs[t.sysfs_path] = t.value
                               /\ GetTunable(t.name, t.value + 1) = t.value
  BY DEF AppliedInv, AppliedExact, TargetHolds
<1> QED
  BY TunableFound DEF Applied, TunableHolds

-------------------------------------------------------------------------------
(* AppliedInv is inductive relative to Inv. *)

\* Outside the second half of SetClocks there is nothing to keep.
LEMMA NotSetting ==
  ASSUME SelectionApart', frame'.pc \notin WritePc \/ frame'.op # "set",
         frame'.pc # "idle" \/ frame'.op # "set" \/ ~frame'.ok
  PROVE  AppliedInv'
BY DEF AppliedInv, Applying, Applied, Setting, Idle

\* The second half of SetClocks goes on.
LEMMA SettingOn ==
  ASSUME SelectionApart, UNCHANGED impl, frame'.pc \in WritePc,
         \A j \in DOMAIN impl.selected_targets :
           (j < frame'.i \/ frame'.pc = "tunable") =>
             TargetHolds(impl.selected_targets[j], sysfs'),
         frame'.pc = "tunable" =>
           \A j \in DOMAIN impl.selected_tunables :
             j < frame'.i => TunableHolds(impl.selected_tunables[j], sysfs')
  PROVE  AppliedInv'
<1>1. SelectionApart'
  BY DEF SelectionApart
<1>2. ~Idle'
  BY DEF Idle, WritePc
<1> QED
  BY <1>1, <1>2 DEF AppliedInv, Applying, Applied

\* A write in the middle of a rail keeps the targets before it.
LEMMA EarlierKept ==
  ASSUME Inv, SelectionApart, Setting, frame.pc \in RailPc,
         WriteSucceeds(PendingWrite[1], PendingWrite[2]),
         NEW j \in DOMAIN impl.selected_targets, j # frame.i,
         TargetHolds(impl.selected_targets[j], sysfs)
  PROVE  TargetHolds(impl.selected_targets[j], sysfs')
<1> DEFINE t == impl.selected_targets[j]
           p == PendingWrite[1]
<1>1. frame.i \in DOMAIN impl.selected_targets /\ Rail = impl.selected_targets[frame.i]
  BY CurrentRail DEF Rails
<1>2. p \in {Rail.min_path, Rail.max_path} /\ p \in Path
  BY PendingNode
<1>3. {t.min_path, t.max_path} \cap {Rail.min_path, Rail.max_path} \subseteq {NoPath}
  BY <1>1, TargetsApart
<1>4. p \notin {t.min_path, t.max_path}
  BY <1>2, <1>3, NoPathAssumption
<1>5. /\ WantMin(t) => t.min_path \in Path
      /\ WantMax(t) => t.max_path \in Path
  BY SelectedTargets
<1> HIDE DEF t, p
<1>6. TargetHolds(t, sysfs) /\ WriteSucceeds(p, PendingWrite[2]) /\ sysfs \in [Path -> Nat]
  BY InvTypes DEF t, p
<1>7. TargetHolds(t, sysfs')
  BY <1>4, <1>5, <1>6, TargetKept
<1> QED
  BY <1>7 DEF t

\* One write in the middle of a rail; a write that ends the rail leaves it applied.
LEMMA RailNodeApplied ==
  ASSUME Inv, Inv', AppliedInv, Next, frame.pc \in RailPc, NEW next,
         WriteNode(PendingWrite[1], PendingWrite[2], next),
         \/ next = NextRail
         \/ \E pc \in {"max_last", "min_last"} : next = [frame EXCEPT !.pc = pc],
         WriteSucceeds(PendingWrite[1], PendingWrite[2]) /\ next = NextRail =>
           TargetHolds(Rail, sysfs')
  PROVE  AppliedInv'
<1>1. frame.pc \in WritePc /\ frame.pc # "tunable"
  BY DEF RailPc, WritePc
<1>2. SelectionApart'
  BY InvTypes DEF AppliedInv, SelectionApart, WriteNode, Commit, ImplType
<1>3. CASE WriteFails(PendingWrite[1], PendingWrite[2]) /\ Setting
           /\ frame' = Returned("set", FALSE)
  <2>1. frame'.pc = "idle" /\ ~frame'.ok
    BY <1>3 DEF Returned, Enter
  <2> QED
    BY <1>2, <2>1, NotSetting DEF WritePc
<1>4. CASE ~Setting /\ frame'.op = frame.op
  BY <1>2, <1>4, NotSetting DEF Setting
<1>5. CASE /\ WriteSucceeds(PendingWrite[1], PendingWrite[2]) /\ Setting
           /\ frame' = next /\ UNCHANGED impl
  <2>1. frame.i \in DOMAIN impl.selected_targets /\ Rail = impl.selected_targets[frame.i]
    BY <1>5, CurrentRail DEF Rails
  <2>2. ASSUME NEW j \in DOMAIN impl.selected_targets, j < frame.i
        PROVE  TargetHolds(impl.selected_targets[j], sysfs')
    <3>1. TargetHolds(impl.selected_targets[j], sysfs) /\ j # frame.i
      BY <1>1, <1>5, <2>2, InvTypes DEF AppliedInv, Applying
    <3> QED
      BY <1>5, <3>1, EarlierKept DEF AppliedInv
  <2>3. CASE next = NextRail
    <3>1. frame'.pc = "rail" /\ frame'.i = frame.i + 1
      BY <1>5, <2>3, InvTypes, NextRailTyped
    <3>2. TargetHolds(Rail, sysfs')
      BY <1>5, <2>3
    <3>3. ASSUME NEW j \in DOMAIN impl.selected_targets, j < frame'.i
          PROVE  TargetHolds(impl.selected_targets[j], sysfs')
      <4>1. j < frame.i \/ j = frame.i
        BY <3>1, <3>3, InvTypes DEF ImplType
      <4> QED
        BY <2>1, <2>2, <3>2, <4>1
    <3> QED
      BY <1>5, <3>1, <3>3, SettingOn DEF AppliedInv, WritePc
  <2>4. CASE \E pc \in {"max_last", "min_last"} : next = [frame EXCEPT !.pc = pc]
    <3>1. frame'.pc \in {"max_last", "min_last"} /\ frame'.i = frame.i
      BY <1>5, <2>4, InvTypes DEF FrameType
    <3> QED
      BY <1>5, <2>2, <3>1, SettingOn DEF AppliedInv, WritePc
  <2> QED
    BY <2>3, <2>4
<1>6. next.op = frame.op
  BY InvTypes, NextRailTyped DEF FrameType
<1>7. [frame EXCEPT !.ok = FALSE, !.i = @ + 1,
                    !.pc = IF @ = "tunable" THEN "tunable" ELSE "rail"].op = frame.op
  BY InvTypes DEF FrameType
<1> QED
  BY <1>3, <1>4, <1>5, <1>6, <1>7 DEF WriteNode

LEMMA RailStepsApplied ==
  ASSUME Inv, Inv', AppliedInv, Next,
         WriteMinFirst \/ WriteMaxLast \/ WriteMaxFirst \/ WriteMinLast
  PROVE  AppliedInv'
<1>1. frame.pc \in RailPc
  BY DEF WriteMinFirst, WriteMaxLast, WriteMaxFirst, WriteMinLast, RailPc
<1>2. /\ WF(Rail) /\ sysfs \in [Path -> Nat]
      /\ WantMin(Rail) => Rail.min_path \in Path
      /\ WantMax(Rail) => Rail.max_path \in Path
  BY <1>1, CurrentRail, InvTypes, WantedNodes
<1>3. WantMin(Rail) /\ WantMax(Rail) => Rail.min_path # Rail.max_path
  BY <1>2, TwoSided DEF WantMin, WantMax, PathPresent
<1>4. NextRail.pc = "rail"
  BY InvTypes, NextRailTyped
<1>5. CASE WriteMinFirst
  <2> DEFINE next == [frame EXCEPT !.pc = "max_last"]
  <2>1. WriteNode(PendingWrite[1], PendingWrite[2], next)
    BY <1>5 DEF PendingWrite, WriteMinFirst
  <2>2. next # NextRail
    BY <1>4, InvTypes DEF FrameType
  <2> QED
    BY <1>1, <2>1, <2>2, RailNodeApplied
<1>6. CASE WriteMaxLast
  <2>1. WantMin(Rail) /\ WantMax(Rail) /\ sysfs[Rail.min_path] = Rail.min_khz
    BY <1>6 DEF Inv, MidRail, WriteMaxLast
  <2>2. PendingWrite = <<Rail.max_path, Rail.max_khz>>
        /\ WriteNode(Rail.max_path, Rail.max_khz, NextRail)
    BY <1>6 DEF PendingWrite, WriteMaxLast
  <2>3. WriteSucceeds(Rail.max_path, Rail.max_khz) => TargetHolds(Rail, sysfs')
    BY <1>2, <1>3, <2>1 DEF WriteSucceeds, TargetHolds
  <2> QED
    BY <1>1, <2>2, <2>3, RailNodeApplied
<1>7. CASE WriteMaxFirst
  <2>1. WantMax(Rail)
    BY <1>7 DEF Inv, MidRail, WriteMaxFirst
  <2> DEFINE next == IF WantMin(Rail) THEN [frame EXCEPT !.pc = "min_last"] ELSE NextRail
  <2>2. PendingWrite = <<Rail.max_path, Rail.max_khz>>
        /\ WriteNode(Rail.max_path, Rail.max_khz, next)
    BY <1>7 DEF PendingWrite, WriteMaxFirst
  <2>3. WriteSucceeds(Rail.max_path, Rail.max_khz) /\ ~WantMin(Rail) =>
          TargetHolds(Rail, sysfs')
    BY <1>2, <2>1 DEF WriteSucceeds, TargetHolds
  <2>4. \/ next = NextRail /\ ~WantMin(Rail)
        \/ next = [frame EXCEPT !.pc = "min_last"] /\ next # NextRail
    BY <1>4, InvTypes DEF FrameType
  <2> HIDE DEF next
  <2>5. WriteNode(PendingWrite[1], PendingWrite[2], next)
    BY <2>2
  <2>6. WriteSucceeds(PendingWrite[1], PendingWrite[2]) /\ next = NextRail =>
          TargetHolds(Rail, sysfs')
    BY <2>2, <2>3, <2>4
  <2> QED
    BY <1>1, <2>4, <2>5, <2>6, RailNodeApplied
<1>8. CASE WriteMinLast
  <2>1. WantMin(Rail) /\ (WantMax(Rail) => sysfs[Rail.max_path] = Rail.max_khz)
    BY <1>8 DEF Inv, MidRail, WriteMinLast
  <2>2. PendingWrite = <<Rail.min_path, Rail.min_khz>>
        /\ WriteNode(Rail.min_path, Rail.min_khz, NextRail)
    BY <1>8 DEF PendingWrite, WriteMinLast
  <2>3. WriteSucceeds(Rail.min_path, Rail.min_khz) => TargetHolds(Rail, sysfs')
    BY <1>2, <1>3, <2>1 DEF WriteSucceeds, TargetHolds
  <2> QED
    BY <1>1, <2>2, <2>3, RailNodeApplied
<1> QED
  BY <1>5, <1>6, <1>7, <1>8

\* The steps of the loops that write nothing.
LEMMA LoopStepsApplied ==
  ASSUME Inv, AppliedInv, ApplyRail \/ RailsEnd \/ SkipTunable
  PROVE  AppliedInv'
<1>1. UNCHANGED <<sysfs, impl>> /\ frame.pc \in WritePc /\ frame'.op = frame.op
  BY InvTypes DEF ApplyRail, RailsEnd, SkipTunable, Local, WritePc, NextRail, FrameType
<1>2. CASE ~Setting
  <2>1. SelectionApart' /\ frame'.op # "set" /\ frame'.pc # "idle"
    BY <1>1, <1>2, InvTypes
    DEF AppliedInv, SelectionApart, Setting, ApplyRail, RailsEnd, SkipTunable, NextRail, FrameType
  <2> QED
    BY <2>1, NotSetting
<1>3. CASE Setting
  <2>1. Rails = impl.selected_targets
    BY <1>3 DEF Rails
  <2>2. CASE ApplyRail
    <3>1. frame.pc = "rail" /\ More(Rails) /\ frame.i \in DOMAIN impl.selected_targets
          /\ Rail = impl.selected_targets[frame.i]
      BY <2>1, <2>2 DEF ApplyRail, More, Rail
    <3>2. CASE ~WantMin(Rail) /\ ~WantMax(Rail) /\ frame' = NextRail
      <4>1. frame'.pc = "rail" /\ frame'.i = frame.i + 1
        BY <3>2, InvTypes, NextRailTyped
      <4>2. ASSUME NEW j \in DOMAIN impl.selected_targets, j < frame'.i
            PROVE  TargetHolds(impl.selected_targets[j], sysfs')
        <5>1. j < frame.i \/ j = frame.i
          BY <4>1, <4>2, InvTypes DEF ImplType
        <5>2. CASE j = frame.i
          BY <3>1, <3>2, <5>2 DEF TargetHolds
        <5>3. CASE j < frame.i
          BY <1>1, <1>3, <5>3 DEF AppliedInv, Applying
        <5> QED
          BY <5>1, <5>2, <5>3
      <4> QED
        BY <1>1, <4>1, <4>2, SettingOn DEF AppliedInv, WritePc
    <3>3. CASE \E pc \in RailPc : frame' = [frame EXCEPT !.pc = pc]
      <4>1. frame'.pc \in RailPc /\ frame'.i = frame.i
        BY <3>3, InvTypes DEF FrameType
      <4>2. frame'.pc # "tunable" /\ frame'.pc \in WritePc
        BY <4>1 DEF RailPc, WritePc
      <4>3. \A j \in DOMAIN impl.selected_targets :
              j < frame'.i => TargetHolds(impl.selected_targets[j], sysfs')
        BY <1>1, <1>3, <4>1 DEF AppliedInv, Applying
      <4> QED
        BY <1>1, <4>2, <4>3, SettingOn DEF AppliedInv
    <3> QED
      BY <2>2, <3>2, <3>3 DEF ApplyRail, RailPc
  <2>3. CASE RailsEnd
    <3>1. frame.pc = "rail" /\ ~More(Rails) /\ frame'.pc = "tunable" /\ frame'.i = 1
      BY <2>3, InvTypes DEF RailsEnd, FrameType
    <3>2. ASSUME NEW j \in DOMAIN impl.selected_targets
          PROVE  TargetHolds(impl.selected_targets[j], sysfs')
      <4>1. j < frame.i
        BY <2>1, <3>1, InvTypes DEF More, ImplType
      <4> QED
        BY <1>1, <1>3, <4>1 DEF AppliedInv, Applying
    <3>3. \A j \in DOMAIN impl.selected_tunables : ~(j < 1)
      BY InvTypes DEF ImplType
    <3> QED
      BY <1>1, <3>1, <3>2, <3>3, SettingOn DEF AppliedInv, WritePc
  <2>4. CASE SkipTunable
    <3>1. /\ frame.pc = "tunable" /\ frame'.pc = "tunable" /\ frame'.i = frame.i + 1
          /\ ~PathPresent(Tunables[frame.i].sysfs_path) /\ More(Tunables)
      BY <2>4, InvTypes DEF SkipTunable, FrameType
    <3>2. ~PathPresent(impl.selected_tunables[frame.i].sysfs_path)
      BY <1>3, <3>1 DEF Tunables, More
    <3>3. ASSUME NEW j \in DOMAIN impl.selected_tunables, j < frame'.i
          PROVE  TunableHolds(impl.selected_tunables[j], sysfs')
      <4>1. j < frame.i \/ j = frame.i
        BY <3>1, <3>3, InvTypes DEF ImplType
      <4>2. CASE j = frame.i
        BY <3>2, <4>2 DEF TunableHolds
      <4>3. CASE j < frame.i
        BY <1>1, <1>3, <3>1, <4>3 DEF AppliedInv, Applying
      <4> QED
        BY <4>1, <4>2, <4>3
    <3>4. \A j \in DOMAIN impl.selected_targets :
            TargetHolds(impl.selected_targets[j], sysfs')
      BY <1>1, <1>3, <3>1 DEF AppliedInv, Applying
    <3> QED
      BY <1>1, <3>1, <3>3, <3>4, SettingOn DEF AppliedInv, WritePc
  <2> QED
    BY <2>2, <2>3, <2>4
<1> QED
  BY <1>2, <1>3

\* One tunable written, or not.
LEMMA WriteTunableApplied ==
  ASSUME Inv, Inv', AppliedInv, WriteTunable
  PROVE  AppliedInv'
<1> DEFINE path == Tunables[frame.i].sysfs_path
           value == Tunables[frame.i].value
<1>1. /\ frame.pc = "tunable" /\ More(Tunables) /\ PathPresent(path)
      /\ WriteNode(path, value, [frame EXCEPT !.i = @ + 1])
  BY DEF WriteTunable
<1>2. path \in Path /\ value \in Nat /\ path \notin RailNodes
  BY <1>1, CurrentTunable
<1>3. SelectionApart'
  BY <1>1, InvTypes DEF AppliedInv, SelectionApart, WriteNode, Commit, ImplType
<1>4. CASE WriteFails(path, value) /\ Setting /\ frame' = Returned("set", FALSE)
  <2>1. frame'.pc = "idle" /\ ~frame'.ok
    BY <1>4 DEF Returned, Enter
  <2> QED
    BY <1>3, <2>1, NotSetting DEF WritePc
<1>5. CASE ~Setting /\ frame'.op = frame.op
  BY <1>3, <1>5, NotSetting DEF Setting
<1>6. CASE WriteSucceeds(path, value) /\ Setting /\ UNCHANGED impl
           /\ frame' = [frame EXCEPT !.i = @ + 1]
  <2>1. frame'.pc = "tunable" /\ frame'.i = frame.i + 1
    BY <1>1, <1>6, InvTypes DEF FrameType
  <2>2. /\ frame.i \in DOMAIN impl.selected_tunables
        /\ path = impl.selected_tunables[frame.i].sysfs_path
        /\ value = impl.selected_tunables[frame.i].value
    BY <1>1, <1>6 DEF Tunables, More
  <2>3. sysfs' = [sysfs EXCEPT ![path] = value] /\ sysfs \in [Path -> Nat]
    BY <1>6, InvTypes DEF WriteSucceeds
  <2>4. ASSUME NEW j \in DOMAIN impl.selected_targets
        PROVE  TargetHolds(impl.selected_targets[j], sysfs')
    <3> DEFINE t == impl.selected_targets[j]
    <3>1. TargetHolds(t, sysfs)
      BY <1>1, <1>6 DEF AppliedInv, Applying, WritePc
    <3>2. /\ WantMin(t) => t.min_path \in Path /\ t.min_path # path
          /\ WantMax(t) => t.max_path \in Path /\ t.max_path # path
      BY <1>2, SelectedTargets
    <3> HIDE DEF t, path, value
    <3>3. TargetHolds(t, sysfs')
      BY <1>6, <2>3, <3>1, <3>2, TargetKept
    <3> QED
      BY <3>3 DEF t
  <2>5. ASSUME NEW j \in DOMAIN impl.selected_tunables, j < frame'.i
        PROVE  TunableHolds(impl.selected_tunables[j], sysfs')
    <3>1. j < frame.i \/ j = frame.i
      BY <2>1, <2>5, InvTypes DEF ImplType
    <3>2. CASE j = frame.i
      BY <1>2, <2>2, <2>3, <3>2 DEF TunableHolds
    <3>3. CASE j < frame.i
      <4> DEFINE u == impl.selected_tunables[j]
      <4>1. TunableHolds(u, sysfs)
        BY <1>1, <1>6, <3>3 DEF AppliedInv, Applying, WritePc
      <4>2. j # frame.i
        BY <3>3, InvTypes
      <4>3. u.sysfs_path # path
        BY <1>1, <2>2, <4>2, TunablesApart DEF AppliedInv, PathPresent
      <4>4. u.sysfs_path \in Path \cup {NoPath}
        BY SelectedTunables DEF Tunable
      <4> HIDE DEF u, path, value
      <4>5. TunableHolds(u, sysfs')
        BY <2>3, <4>1, <4>3, <4>4 DEF TunableHolds, PathPresent
      <4> QED
        BY <4>5 DEF u
    <3> QED
      BY <3>1, <3>2, <3>3
  <2> QED
    BY <1>6, <2>1, <2>4, <2>5, SettingOn DEF AppliedInv, WritePc
<1>7. /\ [frame EXCEPT !.i = @ + 1].op = frame.op
      /\ [frame EXCEPT !.ok = FALSE, !.i = @ + 1,
                       !.pc = IF @ = "tunable" THEN "tunable" ELSE "rail"].op = frame.op
  BY InvTypes DEF FrameType
<1> QED
  BY <1>1, <1>4, <1>5, <1>6, <1>7 DEF WriteNode

\* A call returns; SetClocks reports success only when everything holds.
LEMMA ReturnStepsApplied ==
  ASSUME Inv, Inv', AppliedInv, SetReturns \/ UnsetReturns \/ Destroyed
  PROVE  AppliedInv'
<1>1. CASE SetReturns
  <2>1. /\ frame.pc = "tunable" /\ ~More(Tunables) /\ Setting /\ frame'.pc = "idle"
        /\ UNCHANGED sysfs
    BY <1>1 DEF SetReturns, WritesEnd, Returned, Enter
  <2>2. /\ impl'.selected_targets = impl.selected_targets
        /\ impl'.selected_tunables = impl.selected_tunables
    BY <1>1, InvTypes DEF SetReturns, Commit, ImplType
  <2>3. \A j \in DOMAIN impl.selected_targets : TargetHolds(impl.selected_targets[j], sysfs)
    BY <2>1 DEF AppliedInv, Applying, WritePc
  <2>4. ASSUME NEW j \in DOMAIN impl.selected_tunables
        PROVE  TunableHolds(impl.selected_tunables[j], sysfs)
    <3>1. DOMAIN Tunables = DOMAIN impl.selected_tunables
      BY <2>1 DEF Tunables
    <3>2. j < frame.i
      BY <2>1, <3>1, InvTypes DEF More, ImplType
    <3> QED
      BY <2>1, <3>2 DEF AppliedInv, Applying, WritePc
  <2>5. SelectionApart'
    BY <2>2 DEF AppliedInv, SelectionApart
  <2>6. Applied'
    BY <2>1, <2>2, <2>3, <2>4 DEF Applied
  <2>7. Applying'
    BY <2>1 DEF Applying, WritePc
  <2> QED
    BY <2>5, <2>6, <2>7 DEF AppliedInv
<1>2. CASE UnsetReturns
  <2>1. /\ impl'.selected_targets = impl.selected_targets
        /\ impl'.selected_tunables = impl.selected_tunables
        /\ frame'.op = "unset"
    BY <1>2, InvTypes DEF UnsetReturns, ImplType, Returned, Enter
  <2> QED
    BY <2>1, NotSetting DEF AppliedInv, SelectionApart
<1>3. CASE Destroyed
  <2>1. impl'.selected_targets = <<>> /\ impl'.selected_tunables = <<>> /\ frame'.op = "none"
    BY <1>3 DEF Destroyed, NewImpl, Dead, Enter
  <2> QED
    BY <2>1, NotSetting DEF SelectionApart, NoOverlap
<1> QED
  BY <1>1, <1>2, <1>3

LEMMA SaveStepsApplied ==
  ASSUME Inv, AppliedInv, Save
  PROVE  AppliedInv'
<1>1. UNCHANGED <<sysfs, impl>> /\ frame.op = "set"
  BY InvTypes
  DEF Save, SaveMin, SaveMax, SaveRailsEnd, SaveTunable, SaveTunablesEnd, SaveFails, Local,
      TypeInv, TypeOK, SavePc
<1>2. SelectionApart'
  BY <1>1 DEF AppliedInv, SelectionApart
<1>3. CASE SaveFails
  <2>1. frame'.pc = "idle" /\ ~frame'.ok
    BY <1>3 DEF SaveFails, Returned, Enter
  <2> QED
    BY <1>2, <2>1, NotSetting DEF WritePc
<1>4. CASE SaveTunablesEnd
  <2>1. frame'.pc = "rail" /\ frame'.i = 1
    BY <1>4, InvTypes DEF SaveTunablesEnd, FrameType
  <2>2. \A j \in DOMAIN impl.selected_targets : ~(j < 1)
    BY InvTypes DEF ImplType
  <2> QED
    BY <1>1, <2>1, <2>2, SettingOn DEF AppliedInv, WritePc
<1>5. CASE SaveMin \/ SaveMax \/ SaveRailsEnd \/ SaveTunable
  <2>1. frame'.pc \in SavePc
    BY <1>5, InvTypes
    DEF SaveMin, SaveMax, SaveRailsEnd, SaveTunable, SavePc, FrameType
  <2>2. frame'.pc \notin WritePc /\ frame'.pc # "idle"
    BY <2>1 DEF SavePc, WritePc
  <2> QED
    BY <1>2, <2>2, NotSetting
<1> QED
  BY <1>3, <1>4, <1>5 DEF Save

LEMMA SelectApplied ==
  ASSUME Inv, AppliedInv, NEW op, op # "set", NEW table, NEW k, Select(op, table, k),
         k # 0 => [targets |-> table[k].targets, tunables |-> table[k].tunables] \in Profiles
  PROVE  AppliedInv'
<1>1. frame'.op = op
  BY DEF Select, Returned, Enter
<1>2. SelectionApart'
  <2>1. CASE k # 0
    <3> DEFINE p == [targets |-> table[k].targets, tunables |-> table[k].tunables]
    <3>1. impl'.selected_targets = p.targets /\ impl'.selected_tunables = p.tunables
      BY <2>1, InvTypes DEF Select, ImplType
    <3>2. NoOverlap(p)
      BY <2>1, TablesWellFormed
    <3> HIDE DEF p
    <3> QED
      BY <3>1, <3>2 DEF SelectionApart, NoOverlap
  <2>2. CASE k = 0
    BY <2>2 DEF Select, AppliedInv, SelectionApart
  <2> QED
    BY <2>1, <2>2
<1> QED
  BY <1>1, <1>2, NotSetting

LEMMA CallStepsApplied ==
  ASSUME Inv, AppliedInv, Call \/ Crash
  PROVE  AppliedInv'
<1>1. UNCHANGED impl => SelectionApart'
  BY DEF AppliedInv, SelectionApart
<1>2. CASE \/ \E device \in Device : SetActiveDevice(device)
           \/ \E soc_name \in SocName : SetActiveDeviceByName(soc_name)
  <2>1. frame'.op = "device" /\ UNCHANGED impl
    BY <1>2, InvTypes DEF SetActiveDevice, SetActiveDeviceByName, FrameType
  <2> QED
    BY <1>1, <2>1, NotSetting
<1>3. CASE \E mode \in FrequencyMode : SetFrequencyMode(mode)
  <2>1. PICK mode \in FrequencyMode : SetFrequencyMode(mode)
    BY <1>3
  <2>2. FindMode(mode) # 0 => FindMode(mode) \in DOMAIN GetDeviceConfig.modes
    BY ConfigType, FoundMode DEF Inv
  <2> DEFINE table == GetDeviceConfig.modes
             k == FindMode(mode)
  <2>3. k # 0 => [targets |-> table[k].targets, tunables |-> table[k].tunables] \in Profiles
    BY <2>2, ActiveProfiles DEF Inv
  <2>4. Select("mode", table, k)
    BY <2>1 DEF SetFrequencyMode
  <2> HIDE DEF table, k
  <2> QED
    BY <2>3, <2>4, SelectApplied
<1>4. CASE \E id \in CustomId : SetFrequencyCustomId(id)
  <2>1. PICK id \in CustomId : SetFrequencyCustomId(id)
    BY <1>4
  <2>2. FindCustom(id) # 0 => FindCustom(id) \in DOMAIN GetDeviceConfig.custom_profiles
    BY ConfigType, FoundCustom DEF Inv
  <2> DEFINE table == GetDeviceConfig.custom_profiles
             k == FindCustom(id)
  <2>3. k # 0 => [targets |-> table[k].targets, tunables |-> table[k].tunables] \in Profiles
    BY <2>2, ActiveProfiles DEF Inv
  <2>4. Select("custom", table, k)
    BY <2>1 DEF SetFrequencyCustomId
  <2> HIDE DEF table, k
  <2> QED
    BY <2>3, <2>4, SelectApplied
<1>5. CASE SetClocks
  <2>1. UNCHANGED impl /\ frame'.pc \notin WritePc /\ (frame'.pc # "idle" \/ ~frame'.ok)
    BY <1>5 DEF SetClocks, Returned, Enter, WritePc
  <2> QED
    BY <1>1, <2>1, NotSetting
<1>6. CASE UnsetClocks \/ Construct
  <2>1. UNCHANGED impl /\ frame'.op \in {"unset", "none"}
    BY <1>6 DEF UnsetClocks, Construct, Local, Returned, Enter
  <2> QED
    BY <1>1, <2>1, NotSetting
<1>7. ASSUME frame' = Dead, impl' = NewImpl
      PROVE  AppliedInv'
  <2>1. impl'.selected_targets = <<>> /\ impl'.selected_tunables = <<>> /\ frame'.op = "none"
    BY <1>7 DEF NewImpl, Dead, Enter
  <2> QED
    BY <2>1, NotSetting DEF SelectionApart, NoOverlap
<1>8. CASE Destroy
  <2>1. CASE frame' = Enter("rail", "dtor") /\ UNCHANGED impl
    <3>1. frame'.op = "dtor"
      BY <2>1 DEF Enter
    <3> QED
      BY <1>1, <2>1, <3>1, NotSetting
  <2> QED
    BY <1>7, <1>8, <2>1 DEF Destroy
<1>9. CASE Crash
  BY <1>7, <1>9 DEF Crash
<1> QED
  BY <1>2, <1>3, <1>4, <1>5, <1>6, <1>8, <1>9 DEF Call

-------------------------------------------------------------------------------
LEMMA InitApplied == HInit => AppliedInv
<1> SUFFICES ASSUME HInit PROVE AppliedInv
  OBVIOUS
<1>1. frame.pc = "idle" /\ frame.op = "none"
  BY DEF HInit, Init, Enter
<1>2. impl.selected_targets = <<>> /\ impl.selected_tunables = <<>>
  BY DEF HInit, Init, NewImpl
<1>3. SelectionApart
  BY <1>2 DEF SelectionApart, NoOverlap
<1> QED
  BY <1>1, <1>3 DEF AppliedInv, Applying, Applied, WritePc

LEMMA StepApplied == Inv /\ Inv' /\ AppliedInv /\ [Next]_vars => AppliedInv'
<1> SUFFICES ASSUME Inv, Inv', AppliedInv, [Next]_vars PROVE AppliedInv'
  OBVIOUS
<1>1. CASE Next
  BY <1>1, CallStepsApplied, SaveStepsApplied, RailStepsApplied, LoopStepsApplied,
     WriteTunableApplied, ReturnStepsApplied
  DEF Next, Step, Write
<1>2. CASE UNCHANGED vars
  <2>1. UNCHANGED <<sysfs, impl, frame>>
    BY <1>2 DEF vars
  <2> QED
    BY <2>1 DEF AppliedInv, SelectionApart, Applying, Applied, Setting, Idle
<1> QED
  BY <1>1, <1>2

\* What SetClocks has written so far stands, in every reachable state.
THEOREM AppliedInvariant == HSpec => []AppliedInv
<1>1. [HNext]_hvars => [Next]_vars
  BY DEF HNext, hvars, vars
<1> QED
  BY <1>1, InitApplied, StepApplied, InvInvariant, PTL DEF HSpec

\* A SetClocks that returned true has left every node of the profile at its value,
\* whatever the order of its writes and whatever an earlier, failed call had left,
\* and GetTunable agrees with the nodes.
THEOREM AppliesExactly == HSpec => []AppliedExact
<1> QED
  BY AppliedInvariant, InvInvariant, AppliedGivesExact, PTL
================================================================================
