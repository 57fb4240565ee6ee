------------------------------ MODULE MCFreqCtl ------------------------------
(***************************************************************************)
(* Two devices.  The first has a CPU rail, a GPU rail with a node that may *)
(* fail, a mode that sets both and a tunable, a custom profile on a node   *)
(* that does not exist, and one on the CPU rail.                           *)
(***************************************************************************)
EXTENDS FreqCtlInv, FiniteSetsExt

CONSTANTS cpu_min, cpu_max, gpu_min, gpu_max, knob, lost,
          dev_a, dev_b, soc_a, soc_b, soc_x,
          power_save, performance, boost, latency, little, big, self

Rails2(clo, chi, glo, ghi) == <<
  [min_path |-> gpu_min, max_path |-> gpu_max, min_khz |-> glo, max_khz |-> ghi],
  [min_path |-> cpu_min, max_path |-> cpu_max, min_khz |-> clo, max_khz |-> chi]>>

Knob(v) == <<[name |-> latency, sysfs_path |-> knob, value |-> v]>>

MCRegistry == <<
  [device |-> dev_a, soc_name |-> soc_a, config |->
    [soc_name |-> soc_a,
     modes |-> <<
       [mode |-> power_save, targets |-> Rails2(1, 1, 1, 2), tunables |-> Knob(0)],
       [mode |-> performance, targets |-> Rails2(3, 3, 3, 3), tunables |-> Knob(2)]>>,
     custom_profiles |-> <<
       [id |-> 7, tunables |-> <<>>, targets |->
          <<[min_path |-> NoPath, max_path |-> lost, min_khz |-> 0, max_khz |-> 1]>>],
       [id |-> 9, tunables |-> <<>>, targets |->
          <<[min_path |-> cpu_min, max_path |-> cpu_max, min_khz |-> 1, max_khz |-> 2]>>]>>,
     clusters |-> <<[cluster |-> little, cpu_ids |-> <<0>>], [cluster |-> big, cpu_ids |-> <<9>>]>>]],
  [device |-> dev_b, soc_name |-> soc_b, config |->
    [soc_name |-> soc_b,
     modes |-> <<[mode |-> boost, targets |-> Rails2(2, 3, 2, 2), tunables |-> <<>>]>>,
     custom_profiles |-> <<>>,
     clusters |-> <<[cluster |-> little, cpu_ids |-> <<1>>]>>]]>>

MCPath == {cpu_min, cpu_max, gpu_min, gpu_max, knob, lost}

MCKernelRail == {[min |-> cpu_min, max |-> cpu_max], [min |-> gpu_min, max |-> gpu_max]}

Content(clo, ghi) == [p \in MCPath |->
  CASE p = cpu_min -> clo [] p = cpu_max -> 3 [] p = gpu_min -> 2 [] p = gpu_max -> ghi
    [] OTHER -> 1]

MCInitSysfs == {Content(clo, ghi) : clo \in {1, 2}, ghi \in {2, 3}}

Line(cmd, device, arg) == [cmd |-> cmd, device |-> device, arg |-> arg]

Profile == {[kind |-> "mode", mode |-> m] : m \in {power_save, performance, boost}}
           \cup {[kind |-> "number", number |-> n] : n \in {7, 8, 16 + 7}}
           \cup {[kind |-> "name", id |-> 7]}

MCInvocation ==
  {Line(cmd, device, arg) : cmd \in {"set", "cycle"}, device \in {NoSoc, soc_b}, arg \in Profile}
  \cup {Line("probe", device, NoSoc) : device \in {NoSoc, soc_b, soc_x}}
  \cup {Line("affinity", device, [kind |-> "cluster", cluster |-> c]) :
          device \in {NoSoc, soc_b}, c \in {little, big}}
  \cup {Line("reset-affinity", device, NoSoc) : device \in {NoSoc, soc_b}}
  \cup {Line(cmd, NoSoc, NoSoc) : cmd \in {"devices", "list", "help"}}
===============================================================================
