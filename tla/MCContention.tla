----------------------------- MODULE MCContention -----------------------------
(***************************************************************************)
(* One device; two profiles on the same rail, on either side of the range  *)
(* it starts in, and one on other nodes.                                   *)
(***************************************************************************)
EXTENDS ContentionInv

CONSTANTS cpu_min, cpu_max, gpu_max, knob, dev_a, soc_a, power_save, performance, latency

Rail2(lo, hi) == [min_path |-> cpu_min, max_path |-> cpu_max, min_khz |-> lo, max_khz |-> hi]

MCRegistry == <<
  [device |-> dev_a, soc_name |-> soc_a, config |->
    [soc_name |-> soc_a,
     modes |-> <<
       [mode |-> power_save, targets |-> <<Rail2(1, 1)>>, tunables |-> <<>>],
       [mode |-> performance, targets |-> <<Rail2(3, 3)>>,
        tunables |-> <<[name |-> latency, sysfs_path |-> knob, value |-> 0]>>]>>,
     custom_profiles |-> <<
       [id |-> 7,
        targets |-> <<[min_path |-> NoPath, max_path |-> gpu_max,
                       min_khz |-> 0, max_khz |-> 1]>>,
        tunables |-> <<>>]>>,
     clusters |-> <<>>]]>>

MCPath == {cpu_min, cpu_max, gpu_max, knob}

MCKernelRail == {[min |-> cpu_min, max |-> cpu_max]}

MCInitSysfs == {[p \in MCPath |->
  CASE p = cpu_min -> lo [] p = cpu_max -> 2 [] p = gpu_max -> 2 [] p = knob -> 1] : lo \in {1, 2}}
===============================================================================
