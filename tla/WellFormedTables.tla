---------------------------- MODULE WellFormedTables ----------------------------
(***************************************************************************)
(* The tables for which the guarantees of FreqControllerSafety hold: what  *)
(* the generator emits (GenDeviceConfig) and what a careful hand edit      *)
(* keeps.  DocumentedClaims shows what goes wrong without it.              *)
(***************************************************************************)
EXTENDS SysfsIO, DeviceConfig

Profiles ==
  UNION {LET c == kDeviceRegistry[k].config
         IN  {[targets |-> c.modes[j].targets, tunables |-> c.modes[j].tunables] :
                j \in DOMAIN c.modes}
             \cup
             {[targets |-> c.custom_profiles[j].targets,
               tunables |-> c.custom_profiles[j].tunables] :
                j \in DOMAIN c.custom_profiles} :
         k \in DOMAIN kDeviceRegistry}

TargetPaths ==
  UNION {{p.targets[j].min_path : j \in DOMAIN p.targets} \cup
         {p.targets[j].max_path : j \in DOMAIN p.targets} : p \in Profiles}

TunablePaths == UNION {{p.tunables[j].sysfs_path : j \in DOMAIN p.tunables} : p \in Profiles}

ASSUME TablesWellFormed ==
  /\ \A p \in Profiles :
       /\ \A j \in DOMAIN p.targets : WellFormedTarget(p.targets[j])
       /\ NoOverlap(p)
  /\ (TargetPaths \cup KernelNodes) \cap TunablePaths \subseteq {NoPath}

\* No rail starts at 0, the frequency that means "leave this side alone".
ASSUME NoRailAtZero ==
  \A nodes \in InitSysfs, p \in (TargetPaths \cup KernelNodes) \ {NoPath} : nodes[p] # 0
=================================================================================
