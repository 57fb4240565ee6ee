----------------------------- MODULE DeviceTypes -----------------------------
(***************************************************************************)
(* The table types of src/include/freq_control/device_config.h.            *)
(*                                                                         *)
(* A struct is a record, an array with its count a sequence, and a null    *)
(* array the empty sequence (the generator emits nullptr exactly for the   *)
(* arrays that would be empty).  Names, modes and paths are opaque; a null *)
(* or empty path is NoPath.                                                *)
(***************************************************************************)
EXTENDS Naturals, Sequences

CONSTANTS
  Path,           \* the sysfs nodes the tables name
  NoPath,         \* a null or empty path
  Device,         \* values of enum class Device
  SocName,        \* SoC names
  FrequencyMode,  \* values of enum class FrequencyMode
  TunableName,    \* names of tunables
  CpuCluster      \* values of enum class CpuCluster

ASSUME NoPathAssumption == NoPath \notin Path

RailTarget == [min_path : Path \cup {NoPath}, max_path : Path \cup {NoPath},
               min_khz : Nat, max_khz : Nat]

Tunable == [name : TunableName, sysfs_path : Path \cup {NoPath}, value : Nat]

ModeProfile == [mode : FrequencyMode, targets : Seq(RailTarget), tunables : Seq(Tunable)]

CustomProfile == [id : Nat, targets : Seq(RailTarget), tunables : Seq(Tunable)]

CpuClusterMap == [cluster : CpuCluster, cpu_ids : Seq(Nat)]

Config == [soc_name : SocName,
           modes : Seq(ModeProfile),
           custom_profiles : Seq(CustomProfile),
           clusters : Seq(CpuClusterMap)]

DeviceRegistryEntry == [device : Device, soc_name : SocName, config : Config]

PathPresent(p) == p # NoPath

\* A side of a target is written only if it has a frequency and a path.
WantMin(t) == t.min_khz # 0 /\ PathPresent(t.min_path)
WantMax(t) == t.max_khz # 0 /\ PathPresent(t.max_path)
==============================================================================
