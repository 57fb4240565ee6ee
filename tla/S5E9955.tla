------------------------------- MODULE S5E9955 -------------------------------
(***************************************************************************)
(* The tables of the one device the repository ships                       *)
(* (src/include/freq_control/soc/s5e9955.h and device_registry.h), with    *)
(* the names of the rails for the paths of their nodes.  The frequencies   *)
(* are in MHz where the source has kHz: all are multiples of 1000.         *)
(***************************************************************************)
EXTENDS Naturals, Sequences

CONSTANT NoPath

RailName == <<"cpu_little", "cpu_mid", "cpu_big", "cpu_prime", "gpu", "mif">>

MinNode(rail) == rail \o "_min"
MaxNode(rail) == rail \o "_max"

Targets(lo, hi) ==
  [j \in DOMAIN RailName |->
     [min_path |-> MinNode(RailName[j]), max_path |-> MaxNode(RailName[j]),
      min_khz |-> lo[j], max_khz |-> hi[j]]]

HighestFreq == <<1805, 2362, 2746, 3303, 999, 4780>>

kPowerSaveTargets == Targets(<<400, 576, 768, 768, 240, 676>>,
                             <<1056, 1344, 1536, 1728, 509, 1539>>)
kPerformanceTargets == Targets(HighestFreq, HighestFreq)
kBoostTargets == Targets(HighestFreq, HighestFreq)

AppReadable(latency, scenario) ==
  <<[name |-> "SCHED_COMMON_TARGET_LATENCY", sysfs_path |-> NoPath, value |-> latency],
    [name |-> "MEM_MO_SCEN_ID_CUSTOMIZED", sysfs_path |-> NoPath, value |-> scenario]>>

kModes == <<
  [mode |-> "power_save", targets |-> kPowerSaveTargets, tunables |-> AppReadable(0, 0)],
  [mode |-> "performance", targets |-> kPerformanceTargets, tunables |-> AppReadable(1, 0)],
  [mode |-> "boost", targets |-> kBoostTargets, tunables |-> AppReadable(1, 1)]>>

kClusters == <<
  [cluster |-> "little", cpu_ids |-> <<0, 1>>],
  [cluster |-> "mid", cpu_ids |-> <<2, 3, 4, 5, 6>>],
  [cluster |-> "big", cpu_ids |-> <<7, 8>>],
  [cluster |-> "prime", cpu_ids |-> <<9>>]>>

kDeviceConfig == [soc_name |-> "s5e9955", modes |-> kModes, custom_profiles |-> <<>>,
                  clusters |-> kClusters]

Registry == <<[device |-> "kS5E9955", soc_name |-> "s5e9955", config |-> kDeviceConfig]>>
==============================================================================
