----------------------------- MODULE FreqCtl_proofs -----------------------------
(***************************************************************************)
(* CycleRestores and HealthyRestored hold of every run of the tool, with   *)
(* any tables that are well formed and any command lines.  What            *)
(* FreqControllerInv_proofs shows of one controller is used as it stands,  *)
(* with Owed for the baseline; the rest follows the process through its    *)
(* calls.                                                                  *)
(***************************************************************************)
EXTENDS FreqCtlInv, DeviceConfig_proofs

HP == INSTANCE FreqControllerInv_proofs WITH baseline <- Owed

-------------------------------------------------------------------------------
(* The controller's theorems are about definitions of their own.  They are *)
(* those of this module: each lemma here expands both.                     *)

LEMMA SameInv == (H!Inv <=> HP!Inv) /\ (H!Inv' <=> HP!Inv')
  BY DEF
      H!Inv, HP!Inv, H!TypeOK, HP!TypeOK, H!NeverAborts, HP!NeverAborts, H!Shape,
      HP!Shape, H!DeadEmpty, HP!DeadEmpty, H!SelectionOK, HP!SelectionOK, H!Good,
      HP!Good, H!Saving, HP!Saving, H!OwnerOK, HP!OwnerOK, H!WritesSaved,
      HP!WritesSaved, H!Covered, HP!Covered, H!MidRail, HP!MidRail, H!Restoring,
      HP!Restoring, H!ImplType, HP!ImplType, H!FrameType, HP!FrameType, H!SavePc,
      HP!SavePc, H!WritePc, HP!WritePc, H!GetDeviceConfigAborts,
      HP!GetDeviceConfigAborts, H!RailPc, HP!RailPc, H!More, HP!More, H!Rails, HP!Rails,
      H!NewImpl, HP!NewImpl, H!AllTargets, HP!AllTargets, H!TunablePaths,
      HP!TunablePaths, H!RailsOrdered, HP!RailsOrdered, H!RailNodes, HP!RailNodes,
      H!HalfSnapshot, HP!HalfSnapshot, H!Snapshot, HP!Snapshot, H!SavedTunableOK,
      HP!SavedTunableOK, H!PathPresent, HP!PathPresent, H!Owner, HP!Owner, H!WantMin,
      HP!WantMin, H!SavedPath, HP!SavedPath, H!WantMax, HP!WantMax, H!Tunables,
      HP!Tunables, H!MinGoesFirst, HP!MinGoesFirst, H!Rail, HP!Rail, H!ReadMayFail,
      HP!ReadMayFail, H!Setting, HP!Setting, H!RailBack, HP!RailBack, H!Back, HP!Back,
      H!RailTarget, HP!RailTarget, H!Tunable, HP!Tunable, H!SavedRail, HP!SavedRail,
      H!SavedTunable, HP!SavedTunable, H!FindEntry, HP!FindEntry, H!Restore, HP!Restore,
      H!Profiles, HP!Profiles, H!TargetPaths, HP!TargetPaths, H!KernelNodes,
      HP!KernelNodes, H!Healthy, HP!Healthy,
      H!SelectInSeq, HP!SelectInSeq, H!Min, HP!Min

LEMMA SameNext == Next <=> HP!Next
  BY DEF
      Next, HP!Next, Call, HP!Call, Step, HP!Step, Crash, HP!Crash, SetActiveDevice,
      HP!SetActiveDevice, SetActiveDeviceByName, HP!SetActiveDeviceByName,
      SetFrequencyMode, HP!SetFrequencyMode, SetFrequencyCustomId,
      HP!SetFrequencyCustomId, SetClocks, HP!SetClocks, UnsetClocks, HP!UnsetClocks,
      Destroy, HP!Destroy, Construct, HP!Construct, Save, HP!Save, Write, HP!Write,
      NewImpl, HP!NewImpl, Dead, HP!Dead, Running, HP!Running, ActivateDevice,
      HP!ActivateDevice, FindEntry, HP!FindEntry, ActivateDeviceByName,
      HP!ActivateDeviceByName, FindName, HP!FindName, Select, HP!Select,
      GetDeviceConfig, HP!GetDeviceConfig, FindMode, HP!FindMode, FindCustom,
      HP!FindCustom, Idle, HP!Idle, HasSelection, HP!HasSelection, Enter, HP!Enter,
      Returned, HP!Returned, clocks_applied, HP!clocks_applied, Local, HP!Local,
      SaveMin, HP!SaveMin, SaveMax, HP!SaveMax, SaveRailsEnd, HP!SaveRailsEnd,
      SaveTunable, HP!SaveTunable, SaveTunablesEnd, HP!SaveTunablesEnd, SaveFails,
      HP!SaveFails, ApplyRail, HP!ApplyRail, WriteMinFirst, HP!WriteMinFirst,
      WriteMaxLast, HP!WriteMaxLast, WriteMaxFirst, HP!WriteMaxFirst, WriteMinLast,
      HP!WriteMinLast, RailsEnd, HP!RailsEnd, WriteTunable, HP!WriteTunable,
      SkipTunable, HP!SkipTunable, SetReturns, HP!SetReturns, UnsetReturns,
      HP!UnsetReturns, Destroyed, HP!Destroyed, More, HP!More, SelectedTarget,
      HP!SelectedTarget, WantMin, HP!WantMin, WantMax, HP!WantMax, SelectedTunable,
      HP!SelectedTunable, PathPresent, HP!PathPresent, ReadMayFail, HP!ReadMayFail,
      Rails, HP!Rails, Rail, HP!Rail, NextRail, HP!NextRail, MinGoesFirst,
      HP!MinGoesFirst, WriteNode, HP!WriteNode, Tunables, HP!Tunables, WritesEnd,
      HP!WritesEnd, Setting, HP!Setting, Commit, HP!Commit, Restore, HP!Restore,
      WriteSucceeds, HP!WriteSucceeds, WriteFails, HP!WriteFails, Accepts, HP!Accepts,
      SelectInSeq, HP!SelectInSeq, Min, HP!Min

LEMMA SameAssumptions ==
  /\ HP!NoPathAssumption /\ HP!KernelRailAssumption /\ HP!FaultyAssumption
  /\ HP!InitSysfsAssumption /\ HP!RegistryAssumption /\ HP!CustomIdAssumption
  /\ HP!TablesWellFormed /\ HP!NoRailAtZero
<1>1. HP!InitSysfsAssumption
  BY InitSysfsAssumption DEF RailsOrdered, HP!RailsOrdered
<1>2. HP!RegistryAssumption
  BY RegistryAssumption
  DEF DeviceRegistryEntry, Config, ModeProfile, CustomProfile, CpuClusterMap, RailTarget,
      Tunable, HP!DeviceRegistryEntry, HP!Config, HP!ModeProfile, HP!CustomProfile,
      HP!CpuClusterMap, HP!RailTarget, HP!Tunable
<1>3. HP!TablesWellFormed
  BY TablesWellFormed
  DEF Profiles, TargetPaths, TunablePaths, KernelNodes, WellFormedTarget, NoOverlap,
      HP!Profiles, HP!TargetPaths, HP!TunablePaths, HP!KernelNodes, HP!WellFormedTarget,
      HP!NoOverlap
<1>4. HP!NoRailAtZero
  BY NoRailAtZero
  DEF Profiles, TargetPaths, KernelNodes, HP!Profiles, HP!TargetPaths, HP!KernelNodes
<1> QED
  BY <1>1, <1>2, <1>3, <1>4, NoPathAssumption, KernelRailAssumption, FaultyAssumption,
     CustomIdAssumption

\* When the debt to the caller is taken over or dropped.
DebtChanges ==
  \/ frame.pc = "save_tunable" /\ frame'.pc = "rail"
  \/ frame'.pc = "dead"
  \/ WritesEnd /\ frame.op = "unset" /\ frame'.pc = "idle" /\ ~frame.ok

\* A step of the controller keeps its invariant, if Owed changes as the baseline does.
LEMMA ControllerStep ==
  ASSUME H!Inv,
         \/ Next /\ Owed' = IF DebtChanges THEN sysfs' ELSE Owed
         \/ UNCHANGED <<vars, Owed>>
  PROVE  H!Inv'
<1>1. [HP!HNext]_HP!hvars
  <2>1. HP!BeginsWriting \/ HP!OwesNothing <=> DebtChanges
    BY DEF DebtChanges, HP!BeginsWriting, HP!OwesNothing, WritesEnd, HP!WritesEnd, More, HP!More,
           Tunables, HP!Tunables, Setting, HP!Setting
  <2> QED
    BY <2>1, SameNext DEF HP!HNext, HP!hvars, vars
<1> QED
  BY <1>1, SameInv, SameAssumptions, HP!StepInv

\* What the process relies on.
LEMMA ControllerFacts ==
  ASSUME H!Inv
  PROVE  /\ frame.pc = "dead" => impl = NewImpl
         /\ Writing => frame.op \in {"set", "unset", "dtor"}
         /\ Writing /\ Setting /\ frame.saved_rails = <<>> /\ frame.saved_tunables = <<>> =>
              sysfs = Owed
         /\ WritesEnd /\ ~Setting /\ frame.ok => sysfs = Owed
         /\ WritesEnd /\ ~Setting => \A p \in Healthy : sysfs[p] = Owed[p]
         /\ sysfs \in [Path -> Nat]
<1>1. HP!RestoreExact /\ HP!HealthyRestored
  BY SameInv, SameAssumptions, HP!InvRestoreExact, HP!InvHealthyRestored
<1>2. WritesEnd <=> HP!WritesEnd
  BY DEF WritesEnd, HP!WritesEnd, More, HP!More, Tunables, HP!Tunables, Setting, HP!Setting
<1>3. H!TypeOK /\ H!DeadEmpty /\ H!Covered
  BY DEF H!Inv
<1>4. ASSUME Writing, Setting, frame.saved_rails = <<>>, frame.saved_tunables = <<>>
      PROVE  sysfs = Owed
  <2>1. H!Owner = frame
    BY <1>4 DEF H!Owner, H!WritePc, H!Setting, Writing, Setting
  <2>2. \A p \in Path : ~H!SavedPath(p)
    BY <2>1, <1>4 DEF H!SavedPath
  <2> QED
    BY <2>2, <1>3 DEF H!Covered, H!TypeOK
<1>5. Healthy = HP!Healthy
  BY DEF Healthy, HP!Healthy
<1> QED
  BY <1>1, <1>2, <1>3, <1>4, <1>5
  DEF HP!RestoreExact, HP!HealthyRestored, H!TypeOK, H!DeadEmpty, H!WritePc, H!NewImpl, NewImpl,
      Writing, Setting, HP!Setting

\* A process without a controller owes nothing.
DeadOK ==
  /\ g_active_device = kDeviceRegistry[1].device
  /\ frame = Dead /\ impl = NewImpl
  /\ sysfs \in [Path -> Nat]
  /\ H!Good(sysfs)

LEMMA DeadInv == (DeadOK => H!Inv) /\ (DeadOK' => H!Inv')
<1>1. DeadOK => H!Inv
  <2> SUFFICES ASSUME DeadOK PROVE H!Inv
    OBVIOUS
  <2> USE DEF DeadOK
  <2>1. g_active_device \in Device /\ H!NeverAborts
    BY FirstFound
    DEF DeviceInit, GetDeviceConfigAborts, FindEntry, SelectInSeq, Min, H!NeverAborts,
        H!GetDeviceConfigAborts, H!FindEntry, H!SelectInSeq, H!Min
  <2>2. frame.pc = "dead" /\ ~Writing /\ ~clocks_applied /\ Owed = sysfs
    BY DEF Dead, Enter, NewImpl, Writing, clocks_applied, Owed
  <2>3. H!TypeOK
    BY <2>1, <2>2
    DEF H!TypeOK, H!ImplType, H!FrameType, H!SavePc, H!WritePc, Dead, Enter, NewImpl
  <2>4. H!Owner = impl
    BY <2>2 DEF H!Owner, H!WritePc
  <2>5. H!OwnerOK
    BY <2>4 DEF H!OwnerOK, NewImpl
  <2>6. H!SelectionOK
    BY DEF H!SelectionOK, NewImpl
  <2>7. H!Shape /\ H!DeadEmpty /\ H!Saving /\ H!WritesSaved /\ H!MidRail /\ H!Restoring
    BY <2>2 DEF H!Shape, H!DeadEmpty, H!Saving, H!WritesSaved, H!MidRail, H!Restoring,
                H!SavePc, H!WritePc, H!RailPc, NewImpl, H!NewImpl
  <2>8. H!Covered
    BY <2>2 DEF H!Covered
  <2> QED
    BY <2>1, <2>2, <2>3, <2>5, <2>6, <2>7, <2>8 DEF H!Inv
<1> QED
  BY <1>1, PTL

-------------------------------------------------------------------------------
(* What the controller's own steps do, as far as the process is concerned. *)

Saves ==
  /\ frame.pc \in {"save_min", "save_max", "save_tunable"}
  /\ UNCHANGED <<sysfs, impl>>
  /\ frame'.pc \in {"save_min", "save_max", "save_tunable", "rail", "idle"}
  /\ frame'.pc = "rail" => frame.pc = "save_tunable"
  /\ frame'.op = frame.op \/ frame'.op = "set"

Writes == Writing /\ Writing' /\ frame'.op = frame.op /\ UNCHANGED impl

Commits ==
  /\ Writing /\ Setting
  /\ frame'.pc = "idle" /\ frame'.op = "set"
  /\ impl' = Commit /\ UNCHANGED sysfs

LEMMA SaveCases ==
  ASSUME Save, frame \in H!FrameType
  PROVE  Saves
<1> USE DEF H!FrameType, Local, Returned, Enter, Saves
<1>1. CASE SaveMin
  BY <1>1 DEF SaveMin
<1>2. CASE SaveMax
  BY <1>2 DEF SaveMax
<1>3. CASE SaveRailsEnd
  BY <1>3 DEF SaveRailsEnd
<1>4. CASE SaveTunable
  BY <1>4 DEF SaveTunable
<1>5. CASE SaveTunablesEnd
  BY <1>5 DEF SaveTunablesEnd
<1>6. CASE SaveFails
  BY <1>6 DEF SaveFails
<1> QED
  BY <1>1, <1>2, <1>3, <1>4, <1>5, <1>6 DEF Save

LEMMA WriteNodeCases ==
  ASSUME frame \in H!FrameType, Writing,
         NEW path, NEW value, NEW next, WriteNode(path, value, next),
         next.op = frame.op,
         next.pc \in {"rail", "min_first", "max_last", "max_first", "min_last", "tunable"}
  PROVE  Writes \/ Commits
<1>1. CASE WriteSucceeds(path, value) /\ frame' = next /\ UNCHANGED impl
  BY <1>1 DEF Writes, Writing
<1>2. CASE WriteFails(path, value) /\ Setting /\ impl' = Commit /\ frame' = Returned("set", FALSE)
  BY <1>2 DEF Commits, WriteFails, Returned, Enter
<1>3. CASE /\ UNCHANGED impl
           /\ frame' = [frame EXCEPT !.ok = FALSE, !.i = @ + 1,
                                     !.pc = IF @ = "tunable" THEN "tunable" ELSE "rail"]
  BY <1>3 DEF Writes, Writing, H!FrameType
<1> QED
  BY <1>1, <1>2, <1>3 DEF WriteNode

LEMMA WriteCases ==
  ASSUME Write, frame \in H!FrameType
  PROVE  Writing /\ (Writes \/ Commits \/ UnsetReturns \/ Destroyed)
<1>1. CASE ApplyRail \/ RailsEnd \/ SkipTunable
  BY <1>1 DEF ApplyRail, RailsEnd, SkipTunable, Local, NextRail, Writes, Writing, H!FrameType
<1>2. CASE WriteMinFirst \/ WriteMaxLast \/ WriteMaxFirst \/ WriteMinLast \/ WriteTunable
  <2> DEFINE Next1(next) ==
        /\ next.op = frame.op
        /\ next.pc \in {"rail", "min_first", "max_last", "max_first", "min_last", "tunable"}
  <2>1. /\ Next1([frame EXCEPT !.pc = "max_last"]) /\ Next1(NextRail)
        /\ Next1([frame EXCEPT !.pc = "min_last"])
        /\ frame.pc = "tunable" => Next1([frame EXCEPT !.i = @ + 1])
    BY DEF H!FrameType, NextRail
  <2>2. Writing
    BY <1>2 DEF WriteMinFirst, WriteMaxLast, WriteMaxFirst, WriteMinLast, WriteTunable, Writing
  <2> HIDE DEF Next1
  <2>3. \E path, value, next : WriteNode(path, value, next) /\ Next1(next)
    BY <1>2, <2>1 DEF WriteMinFirst, WriteMaxLast, WriteMaxFirst, WriteMinLast, WriteTunable
  <2> QED
    BY <2>2, <2>3, WriteNodeCases DEF Next1
<1>3. CASE SetReturns
  BY <1>3 DEF SetReturns, WritesEnd, Commits, Writing, Returned, Enter
<1>4. CASE UnsetReturns \/ Destroyed
  BY <1>4 DEF UnsetReturns, Destroyed, WritesEnd, Writing
<1> QED
  BY <1>1, <1>2, <1>3, <1>4 DEF Write

-------------------------------------------------------------------------------
(* The controller runs on inside a call of the process. *)

LEMMA SavesProcess ==
  ASSUME CtlInv, Saves, Step, UNCHANGED <<cli, started>>
  PROVE  CtlInv'
<1>1. cli.pc = "applied" /\ ~clocks_applied /\ ~Idle /\ ~Writing /\ frame.op = "set"
  BY DEF CtlInv, Stage, Saves, Idle, Writing
<1>2. sysfs = started /\ Owed = sysfs /\ ~clocks_applied'
  BY <1>1 DEF CtlInv, Untouched, Owed, Saves, clocks_applied
<1>3. frame'.pc # "dead" /\ frame'.op = "set"
  BY <1>1 DEF Saves
<1>4. sysfs' = sysfs /\ Owed' = sysfs
  BY <1>2 DEF Saves, Owed
<1>5. H!Inv'
  BY <1>2, <1>3, <1>4, ControllerStep DEF CtlInv, Next
<1>6. LineOK' /\ Stage' /\ (Untouched' => sysfs' = started')
  BY <1>1, <1>2, <1>3, <1>4 DEF CtlInv, LineOK, LineTyped, Stage, Untouched, Idle, Writing
<1>7. Settled' /\ CycleDone' /\ HealthyRestored' /\ CycleRestores'
  BY <1>1, <1>2, <1>4 DEF Settled, CycleDone, HealthyRestored, CycleRestores, Exited, At
<1> QED
  BY <1>5, <1>6, <1>7 DEF CtlInv

\* Where the process is while its controller writes.
LEMMA WritingStage ==
  ASSUME CtlInv, Writing
  PROVE  /\ \/ cli.pc = "applied" /\ frame.op = "set" /\ ~clocks_applied
            \/ cli.pc = "unapplied" /\ frame.op = "unset"
            \/ cli.pc = "leaving" /\ frame.op = "dtor"
         /\ cli.pc = "leaving" /\ cli.cmd = "cycle" => cli.code # 0
         /\ Owed = started
         /\ ~Idle /\ frame.pc # "dead"
<1>1. ~Idle /\ frame.pc # "dead" /\ Owed = started
  BY DEF Writing, Idle, Owed
<1>2. /\ cli.pc \notin {"exited", "main", "command", "affinity", "resolve", "apply", "sleep",
                        "leave"}
      /\ frame.op \in {"set", "unset", "dtor"}
      /\ cli.pc \in {"applied", "unapplied", "leaving"} =>
           \/ cli.pc = "applied" /\ frame.op = "set" /\ ~clocks_applied
           \/ cli.pc = "unapplied" /\ frame.op = "unset"
           \/ cli.pc = "leaving" /\ frame.op = "dtor"
      /\ cli.pc = "leaving" /\ cli.cmd = "cycle" => cli.code # 0
  BY <1>1, ControllerFacts DEF CtlInv, Stage, CycleDone, Idle
<1> QED
  BY <1>1, <1>2 DEF CtlInv, Stage

LEMMA WritesProcess ==
  ASSUME CtlInv, Writes, Step, UNCHANGED <<cli, started>>
  PROVE  CtlInv'
<1>1. /\ ~Idle' /\ frame'.pc # "dead" /\ frame.pc \notin {"idle", "dead", "save_tunable"}
      /\ clocks_applied' = clocks_applied
      /\ Owed' = started
  BY DEF Writes, Writing, Idle, Owed, clocks_applied
<1>2. H!Inv'
  BY <1>1, WritingStage, ControllerStep DEF CtlInv, Next, DebtChanges, Writes, Writing, Idle
<1>3. LineOK' /\ Stage' /\ ~Untouched'
  BY <1>1, WritingStage DEF CtlInv, Writes, LineOK, LineTyped, Stage, Untouched, Writing
<1>4. Settled' /\ CycleDone' /\ HealthyRestored' /\ CycleRestores'
  BY <1>1, WritingStage
  DEF CtlInv, Writes, Settled, CycleDone, HealthyRestored, CycleRestores, Exited, At
<1> QED
  BY <1>2, <1>3, <1>4 DEF CtlInv

LEMMA CommitsProcess ==
  ASSUME CtlInv, Commits, Step, UNCHANGED <<cli, started>>
  PROVE  CtlInv'
<1>1. /\ Idle' /\ ~Writing'
      /\ frame.pc # "save_tunable" /\ frame.op = "set" /\ frame'.pc = "idle"
      /\ cli.pc = "applied" /\ Owed = started
  BY WritingStage DEF Commits, Writing, Idle, Setting
<1>2. ~clocks_applied' => sysfs = started
  <2>1. impl \in H!ImplType
    BY DEF CtlInv, H!Inv, H!TypeOK
  <2>2. ~clocks_applied' => frame.saved_rails = <<>> /\ frame.saved_tunables = <<>>
    BY <2>1 DEF Commits, Commit, clocks_applied, H!ImplType
  <2> QED
    BY <1>1, <2>2, ControllerFacts DEF CtlInv, Commits
<1>3. Owed' = Owed
  BY <1>1, <1>2 DEF Owed, Commits
<1>4. H!Inv'
  BY <1>1, <1>3, ControllerStep DEF CtlInv, Next, DebtChanges
<1>5. LineOK' /\ Stage' /\ ~Untouched'
  BY <1>1 DEF CtlInv, Commits, LineOK, LineTyped, Stage, Untouched
<1>6. Settled' /\ CycleDone' /\ HealthyRestored' /\ CycleRestores'
  BY <1>1, <1>2 DEF Commits, Settled, CycleDone, HealthyRestored, CycleRestores, Exited, At
<1> QED
  BY <1>4, <1>5, <1>6 DEF CtlInv

LEMMA UnsetReturnsProcess ==
  ASSUME CtlInv, UnsetReturns, UNCHANGED <<cli, started>>
  PROVE  CtlInv'
<1>1. /\ WritesEnd /\ ~Setting /\ Writing /\ frame.op = "unset" /\ frame.pc = "tunable"
      /\ UNCHANGED <<g_active_device, sysfs>>
      /\ frame'.pc = "idle" /\ frame'.op = "unset" /\ frame'.ok = frame.ok
      /\ Idle' /\ ~Writing'
  BY DEF UnsetReturns, WritesEnd, Setting, Writing, Idle, Returned, Enter
<1>2. cli.pc = "unapplied" /\ Owed = started
  BY <1>1, WritingStage
<1>3. ~clocks_applied'
  <2>1. impl \in H!ImplType
    BY DEF CtlInv, H!Inv, H!TypeOK
  <2> QED
    BY <2>1 DEF UnsetReturns, clocks_applied, H!ImplType
<1>4. Owed' = sysfs
  BY <1>1, <1>3 DEF Owed
<1>5. (frame.ok => sysfs = started) /\ \A p \in Healthy : sysfs[p] = started[p]
  BY <1>1, <1>2, ControllerFacts DEF CtlInv
<1>6. H!Inv'
  <2>1. Owed' = IF DebtChanges THEN sysfs' ELSE Owed
    BY <1>1, <1>2, <1>4, <1>5 DEF DebtChanges
  <2> QED
    BY <2>1, ControllerStep DEF CtlInv, Next, Step, Write
<1>7. LineOK' /\ Stage' /\ ~Untouched'
  BY <1>1, <1>2 DEF CtlInv, LineOK, LineTyped, Stage, Untouched
<1>8. Settled' /\ CycleDone' /\ HealthyRestored' /\ CycleRestores'
  BY <1>1, <1>2, <1>3, <1>5
  DEF Settled, CycleDone, HealthyRestored, CycleRestores, Exited, At
<1> QED
  BY <1>6, <1>7, <1>8 DEF CtlInv

LEMMA DestroyedProcess ==
  ASSUME CtlInv, Destroyed, UNCHANGED <<cli, started>>
  PROVE  CtlInv'
<1>1. /\ WritesEnd /\ ~Setting /\ Writing /\ frame.op = "dtor"
      /\ UNCHANGED <<g_active_device, sysfs>>
      /\ frame'.pc = "dead" /\ ~Writing' /\ ~clocks_applied'
  BY DEF Destroyed, WritesEnd, Setting, Writing, Dead, Enter, NewImpl, clocks_applied
<1>2. cli.pc = "leaving" /\ Owed = started /\ (cli.cmd = "cycle" => cli.code # 0)
  BY <1>1, WritingStage
<1>3. \A p \in Healthy : sysfs[p] = started[p]
  BY <1>1, <1>2, ControllerFacts DEF CtlInv
<1>4. H!Inv'
  <2>1. Owed' = IF DebtChanges THEN sysfs' ELSE Owed
    BY <1>1 DEF DebtChanges, Owed
  <2> QED
    BY <2>1, ControllerStep DEF CtlInv, Next, Step, Write
<1>5. LineOK' /\ Stage' /\ ~Untouched'
  BY <1>1, <1>2 DEF CtlInv, LineOK, LineTyped, Stage, Untouched
<1>6. Settled' /\ CycleDone' /\ HealthyRestored' /\ CycleRestores'
  BY <1>1, <1>2, <1>3 DEF Settled, CycleDone, HealthyRestored, CycleRestores, Exited, At
<1> QED
  BY <1>4, <1>5, <1>6 DEF CtlInv

LEMMA LibraryProcess ==
  ASSUME CtlInv, LibraryStep
  PROVE  CtlInv'
<1>1. frame \in H!FrameType
  BY DEF CtlInv, H!Inv, H!TypeOK
<1>2. Saves \/ Writes \/ Commits \/ UnsetReturns \/ Destroyed
  BY <1>1, SaveCases, WriteCases DEF LibraryStep, Step
<1> QED
  BY <1>2, SavesProcess, WritesProcess, CommitsProcess, UnsetReturnsProcess, DestroyedProcess
  DEF LibraryStep

-------------------------------------------------------------------------------
(* The steps of the process. *)

\* The process moves on and leaves the controller and sysfs alone.
LEMMA ProcessMoves ==
  ASSUME CtlInv, UNCHANGED <<vars, started>>
  PROVE  /\ H!Inv'
         /\ (clocks_applied' <=> clocks_applied) /\ (Idle' <=> Idle) /\ (Writing' <=> Writing)
<1>1. /\ (clocks_applied' <=> clocks_applied) /\ (Idle' <=> Idle) /\ (Writing' <=> Writing)
      /\ UNCHANGED <<vars, Owed>>
  BY DEF vars, clocks_applied, Idle, Writing, Owed
<1> QED
  BY <1>1, ControllerStep DEF CtlInv

\* A call begins, or a selection is made: sysfs and what is saved stay.
LEMMA CallBegins ==
  ASSUME CtlInv, Next, ~Writing,
         UNCHANGED <<sysfs, started>>, (clocks_applied' <=> clocks_applied),
         Writing' => clocks_applied,
         clocks_applied => frame.pc = "idle" /\ frame'.pc # "dead"
  PROVE  H!Inv'
<1>1. CASE ~clocks_applied
  <2>1. Owed = sysfs /\ Owed' = sysfs
    BY <1>1 DEF Owed
  <2> QED
    BY <2>1, ControllerStep DEF CtlInv
<1>2. CASE clocks_applied
  <2>1. ~DebtChanges /\ Owed' = Owed
    BY <1>2 DEF DebtChanges, WritesEnd, Owed
  <2> QED
    BY <2>1, ControllerStep DEF CtlInv
<1> QED
  BY <1>1, <1>2

LEMMA LaunchProcess ==
  ASSUME CtlInv, NEW line, LineTyped(line), Launch(line)
  PROVE  CtlInv'
<1>1. DeadOK'
  <2>1. frame.pc = "dead" /\ impl = NewImpl /\ sysfs \in [Path -> Nat]
    BY ControllerFacts DEF CtlInv, Stage, Launch, At
  <2>2. H!Good(sysfs)
    BY DEF CtlInv, H!Inv
  <2> QED
    BY <2>1, <2>2 DEF DeadOK, Launch, Dead, Enter, NewImpl, H!Good, H!RailsOrdered
<1>2. H!Inv'
  BY <1>1, DeadInv
<1>3. frame'.pc = "dead" /\ cli'.pc = "main" /\ sysfs' = started'
  BY DEF Launch, Dead, Enter
<1>4. LineOK'
  BY DEF Launch, LineOK, LineTyped
<1>5. Stage' /\ (Untouched' => sysfs' = started')
  BY <1>3 DEF Stage, Untouched
<1>6. Settled' /\ CycleDone' /\ HealthyRestored' /\ CycleRestores'
  BY <1>3 DEF Settled, CycleDone, HealthyRestored, CycleRestores, Exited, At
<1> QED
  BY <1>2, <1>4, <1>5, <1>6 DEF CtlInv

LEMMA DeviceProcess ==
  ASSUME CtlInv, SelectDevice
  PROVE  CtlInv'
<1>1. frame.pc = "dead" /\ cli.pc = "main" /\ sysfs = started
  BY DEF SelectDevice, At, CtlInv, Stage, Untouched
<1>2. frame'.pc = "dead" /\ UNCHANGED <<sysfs, impl, started>>
  BY <1>1, ControllerFacts DEF SelectDevice, SetActiveDeviceByName, vars, CtlInv, H!Inv, H!TypeOK, H!FrameType
<1>3. ~Writing /\ ~Writing' /\ ~clocks_applied /\ ~clocks_applied'
  BY <1>1, <1>2, ControllerFacts DEF Writing, clocks_applied, NewImpl, CtlInv
<1>4. H!Inv'
  <2>1. CASE UNCHANGED vars
    BY <2>1, <1>2, ProcessMoves
  <2>2. CASE cli.device # NoSoc /\ SetActiveDeviceByName(cli.device)
    <3>1. Next
      BY <2>2 DEF CtlInv, LineOK, LineTyped, Next, Call
    <3> QED
      BY <3>1, <1>2, <1>3, CallBegins
  <2> QED
    BY <2>1, <2>2 DEF SelectDevice
<1>5. /\ cli'.pc = "command" \/ (cli'.pc = "exited" /\ cli'.code = 1)
      /\ LineOK'
  BY DEF SelectDevice, Goto, Result, CtlInv, LineOK, LineTyped
<1>6. Stage' /\ (Untouched' => sysfs' = started')
  BY <1>1, <1>2, <1>5 DEF Stage, Untouched
<1>7. Settled' /\ CycleDone' /\ HealthyRestored' /\ CycleRestores'
  BY <1>1, <1>2, <1>5 DEF Settled, CycleDone, HealthyRestored, CycleRestores, Exited, At
<1> QED
  BY <1>4, <1>5, <1>6, <1>7 DEF CtlInv

LEMMA MakeProcess ==
  ASSUME CtlInv, MakeController
  PROVE  CtlInv'
<1>1. /\ frame.pc = "dead" /\ sysfs = started /\ impl = NewImpl
      /\ frame' = Enter("idle", "none") /\ UNCHANGED <<g_active_device, sysfs, impl, started>>
      /\ cli' = [cli EXCEPT !.pc = "resolve"]
  BY ControllerFacts
  DEF MakeController, Construct, Local, At, Goto, CtlInv, Stage, Untouched
<1>2. Idle' /\ ~Writing /\ ~Writing' /\ ~clocks_applied /\ ~clocks_applied'
  BY <1>1 DEF Writing, Idle, clocks_applied, NewImpl, Enter
<1>3. H!Inv'
  BY <1>1, <1>2, CallBegins DEF MakeController, Next, Call
<1>4. cli'.pc = "resolve" /\ cli'.cmd \in {"set", "cycle"} /\ LineOK'
  BY <1>1 DEF MakeController, CtlInv, LineOK, LineTyped
<1>5. Stage' /\ (Untouched' => sysfs' = started')
  BY <1>1, <1>2, <1>4 DEF Stage, Untouched
<1>6. Settled' /\ CycleDone' /\ HealthyRestored' /\ CycleRestores'
  BY <1>1, <1>4 DEF Settled, CycleDone, HealthyRestored, CycleRestores, Exited, At
<1> QED
  BY <1>3, <1>4, <1>5, <1>6 DEF CtlInv

LEMMA ResolveProcess ==
  ASSUME CtlInv, ResolveProfile
  PROVE  CtlInv'
<1>1. /\ cli.pc = "resolve" /\ Idle /\ ~clocks_applied /\ sysfs = started
      /\ UNCHANGED <<sysfs, started>>
  BY DEF ResolveProfile, SetFrequencyMode, SetFrequencyCustomId, Select, vars, At, CtlInv, Stage,
         Untouched
<1>2. LineOK' /\ (cli'.pc = "apply" \/ (cli'.pc = "leave" /\ cli'.code = 1))
  BY DEF ResolveProfile, Result, CtlInv, LineOK, LineTyped
<1>3. H!Inv' /\ Idle' /\ ~clocks_applied' /\ ~Writing'
  <2>1. CASE UNCHANGED vars
    <3>1. Idle' /\ ~Writing
      BY <2>1, <1>1 DEF Idle, vars, Writing
    <3> QED
      BY <3>1, <2>1, <1>1, ProcessMoves
  <2>2. CASE \/ cli.arg.kind = "mode" /\ SetFrequencyMode(cli.arg.mode)
             \/ cli.arg.kind = "number" /\ SetFrequencyCustomId(cli.arg.number % Width)
    <3>1. Next
      BY <1>1, <2>2 DEF CtlInv, LineOK, LineTyped, Stage, Next, Call
    <3>2. \E op, table, k : Select(op, table, k)
      BY <2>2 DEF SetFrequencyMode, SetFrequencyCustomId
    <3>3. frame'.pc = "idle" /\ ~clocks_applied'
      BY <1>1, <3>2 DEF Select, Returned, Enter, clocks_applied, CtlInv, H!Inv, H!TypeOK, H!ImplType
    <3>4. Idle' /\ ~Writing /\ ~Writing'
      BY <3>3, <1>1 DEF Idle, Writing
    <3> QED
      BY <3>1, <3>3, <3>4, <1>1, CallBegins
  <2> QED
    BY <2>1, <2>2 DEF ResolveProfile
<1>4. Stage' /\ (Untouched' => sysfs' = started')
  BY <1>1, <1>2, <1>3 DEF Stage, Untouched
<1>5. Settled' /\ CycleDone' /\ HealthyRestored' /\ CycleRestores'
  BY <1>1, <1>2 DEF Settled, CycleDone, HealthyRestored, CycleRestores, Exited, At
<1> QED
  BY <1>2, <1>3, <1>4, <1>5 DEF CtlInv

LEMMA ApplyProcess ==
  ASSUME CtlInv, Apply
  PROVE  CtlInv'
<1>1. /\ cli.pc = "apply" /\ Idle /\ ~clocks_applied /\ sysfs = started
      /\ UNCHANGED <<g_active_device, sysfs, impl, started>>
      /\ frame' = Enter("save_min", "set") \/ frame' = Returned("set", FALSE)
      /\ cli' = [cli EXCEPT !.pc = "applied"]
  BY DEF Apply, SetClocks, At, Goto, CtlInv, Stage, Untouched
<1>2. /\ frame'.pc \in {"save_min", "idle"} /\ frame'.op = "set"
      /\ ~Writing /\ ~Writing' /\ ~clocks_applied'
  BY <1>1 DEF Idle, Writing, Enter, Returned, clocks_applied
<1>3. H!Inv'
  BY <1>1, <1>2, CallBegins DEF Apply, Next, Call
<1>4. cli'.pc = "applied" /\ LineOK'
  BY <1>1 DEF CtlInv, LineOK, LineTyped
<1>5. Stage' /\ (Untouched' => sysfs' = started')
  BY <1>1, <1>2, <1>4 DEF Stage, Untouched
<1>6. Settled' /\ CycleDone' /\ HealthyRestored' /\ CycleRestores'
  BY <1>1, <1>4 DEF Settled, CycleDone, HealthyRestored, CycleRestores, Exited, At
<1> QED
  BY <1>3, <1>4, <1>5, <1>6 DEF CtlInv

LEMMA UnapplyProcess ==
  ASSUME CtlInv, Unapply
  PROVE  CtlInv'
<1>1. /\ cli.pc = "sleep" /\ Idle
      /\ UNCHANGED <<g_active_device, sysfs, impl, started>>
      /\ \/ clocks_applied /\ frame' = Enter("rail", "unset")
         \/ ~clocks_applied /\ frame' = Returned("unset", FALSE)
      /\ cli' = [cli EXCEPT !.pc = "unapplied"]
  BY DEF Unapply, UnsetClocks, Local, At, Goto
<1>2. /\ \/ clocks_applied /\ Writing' /\ frame'.pc = "rail"
         \/ ~clocks_applied /\ Idle' /\ ~Writing' /\ ~frame'.ok
      /\ frame'.op = "unset" /\ frame'.pc # "dead" /\ frame.pc = "idle"
      /\ ~Writing /\ (clocks_applied' <=> clocks_applied)
  BY <1>1 DEF Idle, Writing, Enter, Returned, clocks_applied
<1>3. H!Inv'
  BY <1>1, <1>2, CallBegins DEF Unapply, Next, Call
<1>4. cli'.pc = "unapplied" /\ LineOK'
  BY <1>1 DEF CtlInv, LineOK, LineTyped
<1>5. Stage' /\ ~Untouched'
  BY <1>1, <1>2, <1>4 DEF Stage, Untouched
<1>6. Settled' /\ CycleDone' /\ HealthyRestored' /\ CycleRestores'
  <2>1. Settled'
    BY <1>1, <1>2, <1>4 DEF CtlInv, Settled
  <2>2. CycleDone'
    BY <1>1, <1>2, <1>4 DEF CycleDone, Idle, Writing
  <2> QED
    BY <2>1, <2>2, <1>4 DEF HealthyRestored, CycleRestores, Exited, At
<1> QED
  BY <1>3, <1>4, <1>5, <1>6 DEF CtlInv

LEMMA LeaveProcess ==
  ASSUME CtlInv, Leave
  PROVE  CtlInv'
<1>1. /\ cli.pc = "leave" /\ Idle
      /\ UNCHANGED <<g_active_device, sysfs, started>>
      /\ \/ clocks_applied /\ frame' = Enter("rail", "dtor") /\ UNCHANGED impl
         \/ ~clocks_applied /\ frame' = Dead /\ impl' = NewImpl
      /\ cli' = [cli EXCEPT !.pc = "leaving"]
  BY DEF Leave, Destroy, At, Goto
<1>2. /\ \/ clocks_applied /\ Writing' /\ frame'.pc = "rail" /\ frame'.op = "dtor"
         \/ ~clocks_applied /\ frame'.pc = "dead" /\ ~Writing'
      /\ frame.pc = "idle"
      /\ ~Writing /\ (clocks_applied' <=> clocks_applied)
  BY <1>1 DEF Idle, Writing, Enter, Dead, clocks_applied, NewImpl
<1>3. H!Inv'
  BY <1>1, <1>2, CallBegins DEF Leave, Next, Call
<1>4. cli'.pc = "leaving" /\ LineOK' /\ cli'.cmd = cli.cmd /\ cli'.code = cli.code
  BY <1>1 DEF CtlInv, LineOK, LineTyped
<1>5. Stage' /\ ~Untouched'
  BY <1>1, <1>2, <1>4 DEF Stage, Untouched
<1>6. Settled' /\ CycleDone' /\ HealthyRestored' /\ CycleRestores'
  <2>1. Settled'
    BY <1>1, <1>2, <1>4 DEF CtlInv, Settled
  <2>2. CycleDone'
    BY <1>1, <1>2, <1>4 DEF CtlInv, CycleDone
  <2> QED
    BY <2>1, <2>2, <1>4 DEF HealthyRestored, CycleRestores, Exited, At
<1> QED
  BY <1>3, <1>4, <1>5, <1>6 DEF CtlInv
\* A process that ends before it has a controller has changed nothing.
LEMMA CommandProcess ==
  ASSUME CtlInv,
         UsageError \/ PrintTables \/ Probe \/ CmdAffinity \/ AffinityCall \/ AffinityDone
  PROVE  CtlInv'
<1>1. UNCHANGED <<vars, started>>
  BY DEF UsageError, PrintTables, Probe, CmdAffinity, AffinityCall, AffinityDone, vars,
         SetThreadAffinity, ResetThreadAffinity, BuildMask, ApplyMask
<1>2. /\ cli.pc \in {"command", "affinity"} /\ frame.pc = "dead" /\ sysfs = started
      /\ cli'.pc \in {"affinity", "exited"} /\ LineOK'
  BY DEF UsageError, PrintTables, Probe, CmdAffinity, AffinityCall, AffinityDone, At, Goto,
         Result, CtlInv, LineOK, LineTyped, Stage, Untouched
<1>3. Stage' /\ (Untouched' => sysfs' = started')
  BY <1>1, <1>2 DEF vars, Stage, Untouched
<1>4. Settled' /\ CycleDone' /\ HealthyRestored' /\ CycleRestores'
  BY <1>1, <1>2
  DEF vars, Settled, CycleDone, HealthyRestored, CycleRestores, Exited, At
<1> QED
  BY <1>1, <1>2, <1>3, <1>4, ProcessMoves DEF CtlInv

LEMMA ResultIs ==
  ASSUME LineOK, NEW pc, NEW success \in BOOLEAN, Result(pc, success)
  PROVE  /\ LineOK'
         /\ cli'.pc = pc /\ cli'.cmd = cli.cmd
         /\ cli'.code = IF success THEN 0 ELSE 1
BY DEF LineOK, LineTyped, Result

LEMMA ResultProcess ==
  ASSUME CtlInv, Applied \/ Unapplied
  PROVE  CtlInv'
<1>1. UNCHANGED <<vars, started>> /\ Idle
  BY DEF Applied, Unapplied
<1>2. /\ LineOK' /\ cli'.cmd = cli.cmd
      /\ \/ cli.pc = "applied" /\ cli'.pc = "leave" /\ (cli.cmd = "cycle" => cli'.code # 0)
         \/ cli.pc = "applied" /\ cli'.pc = "sleep"
         \/ cli.pc = "unapplied" /\ cli'.pc = "leave" /\ (cli'.code = 0 => frame.ok)
  <2>1. frame.ok \in BOOLEAN /\ LineOK
    BY DEF CtlInv, H!Inv, H!TypeOK, H!FrameType
  <2>2. CASE Applied
    <3>1. cli.pc = "applied"
      BY <2>2 DEF Applied, At
    <3>2. CASE cli.cmd = "cycle" /\ frame.ok /\ Result("sleep", frame.ok)
      BY <3>1, <3>2, <2>1, ResultIs
    <3>3. CASE ~(cli.cmd = "cycle" /\ frame.ok) /\ Result("leave", frame.ok)
      BY <3>1, <3>3, <2>1, ResultIs
    <3> QED
      BY <2>2, <3>2, <3>3 DEF Applied
  <2>3. CASE Unapplied
    <3>1. cli.pc = "unapplied" /\ Result("leave", frame.ok)
      BY <2>3 DEF Unapplied, At
    <3> QED
      BY <3>1, <2>1, ResultIs
  <2> QED
    BY <2>2, <2>3
<1>3. H!Inv' /\ (clocks_applied' <=> clocks_applied) /\ Idle' /\ ~Writing' /\ ~Writing
  <2>1. ~Writing
    BY <1>1 DEF Idle, Writing
  <2> QED
    BY <2>1, <1>1, ProcessMoves
<1>4. Stage' /\ ~Untouched'
  BY <1>2, <1>3 DEF Stage, Untouched
<1>5. Settled' /\ CycleDone'
  <2>1. sysfs' = sysfs /\ started' = started /\ frame' = frame
    BY <1>1 DEF vars
  <2>2. Settled'
    BY <1>2, <1>3, <2>1 DEF CtlInv, Settled
  <2>3. CycleDone'
    BY <1>1, <1>2, <1>3, <2>1 DEF CtlInv, CycleDone
  <2> QED
    BY <2>2, <2>3
<1>6. HealthyRestored' /\ CycleRestores'
  BY <1>2 DEF HealthyRestored, CycleRestores, Exited, At
<1> QED
  BY <1>2, <1>3, <1>4, <1>5, <1>6 DEF CtlInv

LEMMA LeftProcess ==
  ASSUME CtlInv, Left
  PROVE  CtlInv'
<1>1. UNCHANGED <<vars, started>> /\ cli.pc = "leaving" /\ frame.pc = "dead"
  BY DEF Left, At
<1>2. LineOK' /\ cli'.pc = "exited" /\ cli'.cmd = cli.cmd /\ cli'.code = cli.code
  BY DEF Left, Goto, CtlInv, LineOK, LineTyped
<1>3. sysfs' = sysfs /\ started' = started /\ frame'.pc = "dead"
  BY <1>1 DEF vars
<1>4. \A p \in Healthy : sysfs[p] = started[p]
  BY <1>1, ControllerFacts DEF CtlInv, Settled, Writing, clocks_applied, NewImpl
<1>5. cli.cmd = "cycle" /\ cli.code = 0 => sysfs = started
  BY <1>1 DEF CtlInv, CycleDone
<1>6. Stage' /\ ~Untouched' /\ Settled' /\ CycleDone'
  BY <1>2, <1>3 DEF Stage, Untouched, Settled, CycleDone
<1>7. HealthyRestored' /\ CycleRestores'
  BY <1>2, <1>3, <1>4, <1>5 DEF HealthyRestored, CycleRestores, Exited, At
<1> QED
  BY <1>1, <1>2, <1>6, <1>7, ProcessMoves DEF CtlInv

LEMMA KillProcess ==
  ASSUME CtlInv, Kill
  PROVE  CtlInv'
<1>1. /\ LineOK' /\ cli'.pc = "exited" /\ cli'.code = 137
      /\ UNCHANGED <<sysfs, started>> /\ frame'.pc = "dead"
  <2>1. LineOK' /\ cli'.pc = "exited" /\ cli'.code = 137 /\ started' = started
    BY DEF Kill, CtlInv, LineOK, LineTyped
  <2>2. sysfs' = sysfs /\ frame'.pc = "dead"
    BY DEF Kill, Crash, Dead, Enter, vars
  <2> QED
    BY <2>1, <2>2
<1>2. H!Inv'
  <2>1. CASE Crash
    <3>1. Owed' = sysfs'
      BY <2>1 DEF Crash, Owed, Writing, clocks_applied, Dead, Enter, NewImpl
    <3> QED
      BY <2>1, <3>1, <1>1, ControllerStep DEF CtlInv, Next, DebtChanges
  <2>2. CASE UNCHANGED vars
    BY <2>2, <1>1, ProcessMoves
  <2> QED
    BY <2>1, <2>2 DEF Kill
<1>3. Stage' /\ ~Untouched' /\ Settled' /\ CycleDone' /\ HealthyRestored' /\ CycleRestores'
  BY <1>1
  DEF Stage, Untouched, Settled, CycleDone, HealthyRestored, CycleRestores, Exited, At
<1> QED
  BY <1>1, <1>2, <1>3 DEF CtlInv

-------------------------------------------------------------------------------
LEMMA InitProcess == CtlInit => CtlInv
<1> SUFFICES ASSUME CtlInit PROVE CtlInv
  OBVIOUS
<1>1. DeadOK
  <2>1. \A p \in H!RailNodes : sysfs[p] # 0
    BY NoRailAtZero
    DEF CtlInit, SysfsInit, H!RailNodes, H!TargetPaths, H!KernelNodes, H!Profiles, TargetPaths,
        KernelNodes, Profiles
  <2> QED
    BY <2>1, InitSysfsAssumption
    DEF DeadOK, CtlInit, DeviceInit, SysfsInit, H!Good, H!RailsOrdered, RailsOrdered
<1>2. frame.pc = "dead"
  BY DEF CtlInit, Dead, Enter
<1>3. LineOK /\ Stage /\ (Untouched => sysfs = started) /\ Settled /\ CycleDone
  BY <1>2 DEF CtlInit, LineOK, LineTyped, Stage, Untouched, Settled, CycleDone
<1>4. HealthyRestored /\ CycleRestores
  BY DEF CtlInit, HealthyRestored, CycleRestores
<1> QED
  BY <1>1, <1>3, <1>4, DeadInv DEF CtlInv

LEMMA StepProcess == CtlInv /\ [CtlNext]_cvars => CtlInv'
<1> SUFFICES ASSUME CtlInv, [CtlNext]_cvars PROVE CtlInv'
  OBVIOUS
<1>1. CASE \E line \in Invocation : Launch(line)
  BY <1>1, InvocationAssumption, LaunchProcess
<1>2. CASE CtlStep
  BY <1>2, DeviceProcess, CommandProcess, MakeProcess, ResolveProcess, ApplyProcess,
     ResultProcess, UnapplyProcess, LeaveProcess, LeftProcess, LibraryProcess
  DEF CtlStep
<1>3. CASE Kill
  BY <1>3, KillProcess
<1>4. CASE UNCHANGED cvars
  <2>1. UNCHANGED <<vars, cli, started>>
    BY <1>4 DEF cvars
  <2>2. UNCHANGED <<sysfs, frame>>
    BY <2>1 DEF vars
  <2>3. H!Inv' /\ (clocks_applied' <=> clocks_applied) /\ (Idle' <=> Idle)
        /\ (Writing' <=> Writing)
    BY <2>1, ProcessMoves
  <2>4. LineOK' /\ Stage' /\ (Untouched' => sysfs' = started')
    BY <2>1, <2>2, <2>3 DEF CtlInv, LineOK, LineTyped, Stage, Untouched
  <2>5. Settled' /\ CycleDone' /\ HealthyRestored' /\ CycleRestores'
    BY <2>1, <2>2, <2>3
    DEF CtlInv, Settled, CycleDone, HealthyRestored, CycleRestores, Exited, At
  <2> QED
    BY <2>3, <2>4, <2>5 DEF CtlInv
<1> QED
  BY <1>1, <1>2, <1>3, <1>4 DEF CtlNext

\* The tool and its controller keep to CtlInv, whatever command lines follow one
\* another, whatever accesses fail and wherever a process is killed.
THEOREM CtlInvariant == CtlSpec => []CtlInv
<1> QED
  BY InitProcess, StepProcess, PTL DEF CtlSpec

\* A cycle command that exits with code 0 has left sysfs as the process found it:
\* CmdCycle reports UnsetClocks' result, and the destructor changes nothing more.
THEOREM CycleAlwaysRestores == CtlSpec => []CycleRestores
<1>1. CtlInv => CycleRestores
  BY DEF CtlInv
<1> QED
  BY <1>1, CtlInvariant, PTL

\* A process that leaves by itself, with any exit code, has left every node that is
\* out of reach of failures as it found it: what CmdCycle or CmdSet does not restore
\* the destructor does, and neither stops at a failed write.
THEOREM LeavesHealthyRestored == CtlSpec => []HealthyRestored
<1>1. CtlInv => HealthyRestored
  BY DEF CtlInv
<1> QED
  BY <1>1, CtlInvariant, PTL
================================================================================
