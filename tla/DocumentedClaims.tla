--------------------------- MODULE DocumentedClaims ---------------------------
(***************************************************************************)
(* What the comments of freq_controller.h and device_config.h say of the   *)
(* library and the code does not do, for tables that are not well formed.  *)
(***************************************************************************)
EXTENDS FreqControllerSafety

\* "A 0 frequency means 'do not change that side'": a call writes only sides that
\* have a frequency.
ZeroSideUntouched ==
  [][\A p \in Path : sysfs'[p] # sysfs[p] =>
       \/ \E j \in DOMAIN Rails : \/ WantMin(Rails[j]) /\ Rails[j].min_path = p
                                  \/ WantMax(Rails[j]) /\ Rails[j].max_path = p
       \/ \E j \in DOMAIN Tunables : Tunables[j].sysfs_path = p]_vars

\* "ctl.UnsetClocks();    // restores previous values": an UnsetClocks that is
\* about to return true has put back every rail.
RestoresPreviousValues == WritesEnd /\ frame.op = "unset" /\ frame.ok => sysfs = baseline
===============================================================================
