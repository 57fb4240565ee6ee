-------------------------- MODULE MCDocumentedClaims --------------------------
(***************************************************************************)
(* One rail whose minimum may be 0 (devfreq nodes start there on some      *)
(* kernels), a mode that limits only its maximum and one that sets both.   *)
(***************************************************************************)
EXTENDS DocumentedClaims

CONSTANTS cpu_min, cpu_max, dev_a, soc_a, power_save, performance

Both(lo, hi) == [min_path |-> cpu_min, max_path |-> cpu_max, min_khz |-> lo, max_khz |-> hi]

MCRegistry == <<
  [device |-> dev_a, soc_name |-> soc_a, config |->
    [soc_name |-> soc_a,
     modes |-> <<[mode |-> power_save, targets |-> <<Both(0, 1)>>, tunables |-> <<>>],
                 [mode |-> performance, targets |-> <<Both(3, 3)>>, tunables |-> <<>>]>>,
     custom_profiles |-> <<>>,
     clusters |-> <<>>]]>>

MCPath == {cpu_min, cpu_max}

MCKernelRail == {[min |-> cpu_min, max |-> cpu_max]}

MCInitSysfs == {[p \in MCPath |-> IF p = cpu_min THEN lo ELSE 3] : lo \in {0, 2}}
===============================================================================
