------------------------------ MODULE MCS5E9955 ------------------------------
(***************************************************************************)
(* The core on the shipped tables.  Every rail starts unconstrained, from  *)
(* the lowest value of its power_save target to its highest frequency.     *)
(***************************************************************************)
EXTENDS FreqControllerInv

INSTANCE S5E9955

MCPath == {MinNode(RailName[j]) : j \in DOMAIN RailName}
          \cup {MaxNode(RailName[j]) : j \in DOMAIN RailName}

MCKernelRail == {[min |-> MinNode(RailName[j]), max |-> MaxNode(RailName[j])] :
                   j \in DOMAIN RailName}

Unconstrained == [p \in MCPath |->
  LET j == CHOOSE k \in DOMAIN RailName : p \in {MinNode(RailName[k]), MaxNode(RailName[k])}
  IN  IF p = MinNode(RailName[j]) THEN kPowerSaveTargets[j].min_khz ELSE HighestFreq[j]]

MCInitSysfs == {Unconstrained}
==============================================================================
