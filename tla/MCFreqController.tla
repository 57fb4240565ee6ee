--------------------------- MODULE MCFreqController ---------------------------
(***************************************************************************)
(* A device with one two-sided rail, one node that only has a maximum and  *)
(* one sysfs-bound tunable, and a second device without custom profiles.   *)
(***************************************************************************)
EXTENDS FreqControllerRefinement

CONSTANTS cpu_min, cpu_max, gpu_max, knob,      \* nodes
          dev_a, dev_b, dev_x,                  \* dev_x is not registered
          soc_a, soc_b, soc_x,
          power_save, performance, boost,       \* no table declares boost
          latency, hint,                        \* tunables
          big

Rail2(lo, hi) == [min_path |-> cpu_min, max_path |-> cpu_max, min_khz |-> lo, max_khz |-> hi]

GpuMax(hi) == [min_path |-> NoPath, max_path |-> gpu_max, min_khz |-> 0, max_khz |-> hi]

Bound(v) == [name |-> latency, sysfs_path |-> knob, value |-> v]

AppOnly(v) == [name |-> hint, sysfs_path |-> NoPath, value |-> v]

MCRegistry == <<
  [device |-> dev_a, soc_name |-> soc_a, config |->
    [soc_name |-> soc_a,
     modes |-> <<
       [mode |-> power_save, targets |-> <<GpuMax(1), Rail2(1, 1)>>, tunables |-> <<>>],
       [mode |-> performance, targets |-> <<Rail2(3, 3)>>,
        tunables |-> <<AppOnly(1), Bound(0)>>]>>,
     custom_profiles |-> <<
       [id |-> 7, targets |-> <<>>, tunables |-> <<AppOnly(2)>>]>>,
     clusters |-> <<[cluster |-> big, cpu_ids |-> <<0>>]>>]],
  [device |-> dev_b, soc_name |-> soc_b, config |->
    [soc_name |-> soc_b,
     modes |-> <<[mode |-> power_save, targets |-> <<Rail2(2, 3)>>, tunables |-> <<>>]>>,
     custom_profiles |-> <<>>,
     clusters |-> <<>>]]>>

MCPath == {cpu_min, cpu_max, gpu_max, knob}

MCKernelRail == {[min |-> cpu_min, max |-> cpu_max]}

Content(lo, hi) == [p \in MCPath |->
  CASE p = cpu_min -> lo [] p = cpu_max -> hi [] p = gpu_max -> 2 [] p = knob -> 1]

MCInitSysfs == {Content(lo, hi) : lo \in {1, 2}, hi \in {2, 3}}
===============================================================================
