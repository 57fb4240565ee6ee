------------------------ MODULE ThreadAffinity_proofs ------------------------
(***************************************************************************)
(* AffinityInv is inductive, and the properties of ThreadAffinity are      *)
(* parts of it.                                                            *)
(***************************************************************************)
EXTENDS ThreadAffinity, DeviceConfig_proofs

LEMMA ModSmall ==
  ASSUME NEW x \in Nat, NEW m \in Nat, x <= m
  PROVE  x % (m + 1) = x
OBVIOUS

\* A mask that fits is the set of the cluster's CPUs: no id wraps.
LEMMA MaskIsCpus ==
  ASSUME NEW map \in CpuClusterMap, Fits(map)
  PROVE  Mask(map) = Cpus(map) /\ Cpus(map) \subseteq 0..kMaxSupportedCpuId
<1>1. \A j \in DOMAIN map.cpu_ids :
        map.cpu_ids[j] \in Nat /\ map.cpu_ids[j] <= kMaxSupportedCpuId
  BY DEF Fits, CpuClusterMap
<1>2. \A j \in DOMAIN map.cpu_ids :
        map.cpu_ids[j] % (kMaxSupportedCpuId + 1) = map.cpu_ids[j]
  BY <1>1, ModSmall, AffinityAssumption
<1>3. Mask(map) = Cpus(map)
  BY <1>2 DEF Mask, Cpus
<1>4. Cpus(map) \subseteq 0..kMaxSupportedCpuId
  BY <1>1, AffinityAssumption DEF Cpus
<1> QED
  BY <1>3, <1>4

LEMMA UnionOfMasks ==
  ASSUME NEW maps \in SUBSET CpuClusterMap, \A m \in maps : Fits(m)
  PROVE  /\ UNION {Mask(m) : m \in maps} = UNION {Cpus(m) : m \in maps}
         /\ UNION {Mask(m) : m \in maps} \subseteq 0..kMaxSupportedCpuId
<1>1. \A m \in maps : Mask(m) = Cpus(m) /\ Cpus(m) \subseteq 0..kMaxSupportedCpuId
  BY MaskIsCpus
<1>2. {Mask(m) : m \in maps} = {Cpus(m) : m \in maps}
  BY <1>1
<1> QED
  BY <1>1, <1>2

LEMMA AffinityInitInv == AffinityInit => AffinityInv
<1> SUFFICES ASSUME AffinityInit PROVE AffinityInv
  OBVIOUS
<1>1. g_active_device \in Device /\ ~GetDeviceConfigAborts
  BY FirstFound DEF AffinityInit
<1>2. /\ affinity = [t \in Thread |-> OnlineCpu]
      /\ call = [t \in Thread |-> NotCalling]
  BY DEF AffinityInit
<1>3. AffinityTypeOK
  BY <1>1, <1>2, AffinityAssumption DEF AffinityTypeOK, NotCalling
<1>4. CallOneTable /\ OneTable
  BY <1>2 DEF CallOneTable, OneTable, NotCalling
<1> QED
  BY <1>1, <1>3, <1>4 DEF AffinityInv

CallType ==
  [pc : {"idle", "apply"}, op : {"none", "pin", "reset"}, tid : Thread \cup {NoThread},
   mask : SUBSET (0..kMaxSupportedCpuId), ok : BOOLEAN]

LEMMA ReturnTyped ==
  ASSUME NEW op \in {"none", "pin", "reset"}, NEW tid \in Thread, NEW result \in BOOLEAN
  PROVE  AffinityReturns(op, tid, result) \in CallType
         /\ AffinityReturns(op, tid, result).pc = "idle"
BY AffinityAssumption DEF AffinityReturns, NotCalling, CallType

\* A step that ends a call, or begins one with the mask of one table.
LEMMA CallChanges ==
  ASSUME AffinityInv, UNCHANGED <<g_active_device, affinity>>, NEW self \in Thread,
         NEW c \in CallType, call' = [call EXCEPT ![self] = c],
         c.pc = "apply" =>
           /\ c.ok
           /\ \E k \in DOMAIN kDeviceRegistry :
                \/ \E m \in Clusters(k) : c.mask = Cpus(m)
                \/ c.mask = UNION {Cpus(m) : m \in Clusters(k)}
  PROVE  AffinityInv'
<1>1. call \in [Thread -> CallType]
  BY DEF AffinityInv, AffinityTypeOK, CallType
<1>2. call' \in [Thread -> CallType]
  BY <1>1
<1>3. \A t \in Thread : call'[t] = IF t = self THEN c ELSE call[t]
  BY <1>1
<1>4. AffinityTypeOK'
  BY <1>2, <1>3 DEF AffinityInv, AffinityTypeOK, CallType
<1>5. CallOneTable'
  BY <1>3 DEF AffinityInv, CallOneTable
<1>6. OneTable' /\ ~GetDeviceConfigAborts'
  BY DEF AffinityInv, OneTable, GetDeviceConfigAborts
<1> QED
  BY <1>4, <1>5, <1>6 DEF AffinityInv

\* BuildMask, on clusters of the active table.
LEMMA BuildMaskInv ==
  ASSUME AffinityInv, NEW self \in Thread, NEW op \in {"pin", "reset"}, NEW tid \in Thread,
         NEW maps \in SUBSET CpuClusterMap, NEW k \in DOMAIN kDeviceRegistry,
         maps = Clusters(k) \/ \E m \in Clusters(k) : maps = {m},
         BuildMask(self, op, tid, maps)
  PROVE  AffinityInv'
<1> DEFINE mask == UNION {Mask(m) : m \in maps}
           c == [pc |-> "apply", op |-> op, tid |-> tid, mask |-> mask, ok |-> TRUE]
<1>1. CASE (\A m \in maps : Fits(m)) /\ call' = [call EXCEPT ![self] = c]
  <2>1. mask \subseteq 0..kMaxSupportedCpuId /\ mask = UNION {Cpus(m) : m \in maps}
    BY <1>1, UnionOfMasks
  <2>2. \/ \E m \in Clusters(k) : mask = Cpus(m)
        \/ mask = UNION {Cpus(m) : m \in Clusters(k)}
    <3>1. CASE maps = Clusters(k)
      BY <2>1, <3>1
    <3>2. CASE \E m \in Clusters(k) : maps = {m}
      <4>1. PICK m \in Clusters(k) : maps = {m}
        BY <3>2
      <4>2. UNION {Cpus(x) : x \in {m}} = Cpus(m)
        OBVIOUS
      <4> QED
        BY <2>1, <4>1, <4>2
    <3> QED
      BY <3>1, <3>2
  <2> HIDE DEF mask
  <2>3. c \in CallType /\ c.ok /\ c.mask = mask
    BY <2>1 DEF CallType
  <2>4. UNCHANGED <<g_active_device, affinity>>
    BY DEF BuildMask
  <2> QED
    BY <1>1, <2>2, <2>3, <2>4, CallChanges
<1>2. CASE call' = [call EXCEPT ![self] = AffinityReturns(op, tid, FALSE)]
  <2>1. UNCHANGED <<g_active_device, affinity>>
    BY DEF BuildMask
  <2> QED
    BY <1>2, <2>1, ReturnTyped, CallChanges
<1> QED
  BY <1>1, <1>2 DEF BuildMask

\* The clusters a call looks at are those of one entry of the registry.
LEMMA ActiveClusters ==
  ASSUME AffinityInv
  PROVE  \E k \in DOMAIN kDeviceRegistry :
           /\ GetDeviceConfig = kDeviceRegistry[k].config
           /\ Clusters(k) = ToSet(GetDeviceConfig.clusters)
           /\ GetDeviceConfig.clusters \in Seq(CpuClusterMap)
           /\ Clusters(k) \subseteq CpuClusterMap
<1>1. /\ FindEntry(g_active_device) \in DOMAIN kDeviceRegistry
      /\ GetDeviceConfig.clusters \in Seq(CpuClusterMap)
  BY ActiveConfig DEF AffinityInv, Config
<1>2. ToSet(GetDeviceConfig.clusters) \subseteq CpuClusterMap
  BY <1>1 DEF ToSet
<1> QED
  BY <1>1, <1>2 DEF GetDeviceConfig, Clusters

LEMMA FoundCluster ==
  ASSUME NEW cluster, GetDeviceConfig.clusters \in Seq(CpuClusterMap),
         FindCluster(cluster) # 0
  PROVE  GetDeviceConfig.clusters[FindCluster(cluster)] \in ToSet(GetDeviceConfig.clusters)
<1> DEFINE clusters == GetDeviceConfig.clusters
           I == {i \in 1..Len(clusters) : clusters[i].cluster = cluster}
<1>1. FindCluster(cluster) = IF I # {} THEN Min(I) ELSE 0
  BY DEF FindCluster, SelectInSeq
<1>2. I \subseteq 1..Len(clusters)
  OBVIOUS
<1> HIDE DEF I, clusters
<1>3. FindCluster(cluster) \in DOMAIN clusters
  BY <1>1, <1>2, SelectedIndex DEF clusters
<1> QED
  BY <1>3 DEF ToSet, clusters

LEMMA PinInv ==
  ASSUME AffinityInv, NEW self \in Thread, NEW cluster, NEW tid \in Thread,
         SetThreadAffinity(self, cluster, tid)
  PROVE  AffinityInv'
<1>1. CASE FindCluster(cluster) # 0
  <2> DEFINE m == GetDeviceConfig.clusters[FindCluster(cluster)]
  <2>1. PICK k \in DOMAIN kDeviceRegistry :
          /\ Clusters(k) = ToSet(GetDeviceConfig.clusters)
          /\ GetDeviceConfig.clusters \in Seq(CpuClusterMap)
          /\ Clusters(k) \subseteq CpuClusterMap
    BY ActiveClusters
  <2>2. m \in Clusters(k)
    BY <1>1, <2>1, FoundCluster
  <2>3. BuildMask(self, "pin", tid, {m})
    BY <1>1 DEF SetThreadAffinity
  <2> HIDE DEF m
  <2>4. {m} \in SUBSET CpuClusterMap
    BY <2>1, <2>2
  <2> QED
    BY <2>2, <2>3, <2>4, BuildMaskInv
<1>2. CASE FindCluster(cluster) = 0
  BY <1>2, ReturnTyped, CallChanges DEF SetThreadAffinity
<1> QED
  BY <1>1, <1>2

LEMMA ResetInv ==
  ASSUME AffinityInv, NEW self \in Thread, NEW tid \in Thread, ResetThreadAffinity(self, tid)
  PROVE  AffinityInv'
<1>1. CASE BuildMask(self, "reset", tid, ToSet(GetDeviceConfig.clusters))
  <2>1. PICK k \in DOMAIN kDeviceRegistry :
          /\ Clusters(k) = ToSet(GetDeviceConfig.clusters)
          /\ Clusters(k) \subseteq CpuClusterMap
    BY ActiveClusters
  <2> QED
    BY <1>1, <2>1, BuildMaskInv
<1>2. CASE call' = [call EXCEPT ![self] = AffinityReturns("reset", tid, FALSE)]
           /\ UNCHANGED <<g_active_device, affinity>>
  BY <1>2, ReturnTyped, CallChanges
<1> QED
  BY <1>1, <1>2 DEF ResetThreadAffinity

\* The kernel keeps the online part of a mask, and never an empty one.
LEMMA ApplyMaskInv ==
  ASSUME AffinityInv, NEW self \in Thread, ApplyMask(self)
  PROVE  AffinityInv'
<1> DEFINE c == call[self]
<1>1. c \in CallType /\ c.pc = "apply"
  BY DEF AffinityInv, AffinityTypeOK, CallType, ApplyMask
<1>2. PICK result \in BOOLEAN : call' = [call EXCEPT ![self] = AffinityReturns(c.op, c.tid, result)]
  BY DEF ApplyMask
<1>3. AffinityReturns(c.op, c.tid, result) \in CallType
      /\ AffinityReturns(c.op, c.tid, result).pc = "idle"
  BY <1>1, <1>2, AffinityAssumption DEF AffinityReturns, NotCalling, CallType
<1>4. call \in [Thread -> CallType]
  BY DEF AffinityInv, AffinityTypeOK, CallType
<1>5. call' \in [Thread -> CallType]
  BY <1>2, <1>3, <1>4
<1>6. \A t \in Thread : call'[t].pc = "apply" => call'[t] = call[t]
  BY <1>2, <1>3, <1>4
<1>7. CallOneTable'
  BY <1>6 DEF AffinityInv, CallOneTable
<1>8. UNCHANGED g_active_device
  BY DEF ApplyMask
<1>9. \A t \in Thread :
        \/ affinity'[t] = affinity[t]
        \/ affinity'[t] = c.mask \cap OnlineCpu /\ affinity'[t] # {}
  BY DEF ApplyMask, AffinityInv, AffinityTypeOK
<1>10. affinity' \in [Thread -> (SUBSET OnlineCpu) \ {{}}]
  <2>1. affinity \in [Thread -> (SUBSET OnlineCpu) \ {{}}]
    BY DEF AffinityInv, AffinityTypeOK
  <2>2. \/ affinity' = affinity
        \/ /\ c.mask \cap OnlineCpu # {}
           /\ affinity' = [affinity EXCEPT ![c.tid] = c.mask \cap OnlineCpu]
    BY DEF ApplyMask
  <2> QED
    BY <2>1, <2>2
<1>11. AffinityTypeOK'
  BY <1>5, <1>6, <1>8, <1>10 DEF AffinityInv, AffinityTypeOK, CallType
<1>12. OneTable'
  <2>1. PICK k \in DOMAIN kDeviceRegistry :
          \/ \E m \in Clusters(k) : c.mask = Cpus(m)
          \/ c.mask = UNION {Cpus(m) : m \in Clusters(k)}
    BY <1>1 DEF AffinityInv, CallOneTable
  <2> HIDE DEF c
  <2>2. ASSUME NEW t \in Thread, affinity'[t] = c.mask \cap OnlineCpu
        PROVE  \/ \E m \in Clusters(k) : affinity'[t] = Cpus(m) \cap OnlineCpu
               \/ affinity'[t] = (UNION {Cpus(m) : m \in Clusters(k)}) \cap OnlineCpu
    BY <2>1, <2>2
  <2> QED
    BY <1>9, <2>2 DEF AffinityInv, OneTable
<1> QED
  BY <1>7, <1>8, <1>11, <1>12 DEF AffinityInv, GetDeviceConfigAborts

LEMMA AffinityStepInv == AffinityInv /\ [AffinityNext]_avars => AffinityInv'
<1> SUFFICES ASSUME AffinityInv, [AffinityNext]_avars PROVE AffinityInv'
  OBVIOUS
<1>1. ASSUME NEW device \in Device, Retarget(device)
      PROVE  AffinityInv'
  <2>1. g_active_device' \in Device /\ ~GetDeviceConfigAborts'
    BY <1>1, ActivatedFound DEF Retarget
  <2>2. UNCHANGED <<affinity, call>>
    BY <1>1 DEF Retarget
  <2> QED
    BY <2>1, <2>2 DEF AffinityInv, AffinityTypeOK, CallOneTable, OneTable
<1>2. CASE UNCHANGED avars
  BY <1>2 DEF avars, AffinityInv, AffinityTypeOK, CallOneTable, OneTable, GetDeviceConfigAborts
<1> QED
  BY <1>1, <1>2, PinInv, ResetInv, ApplyMaskInv DEF AffinityNext

\* Both calls of thread_affinity.cc keep to AffinityInv: the mask a call carries to
\* the system call is that of one table, also when the device was switched since.
THEOREM AffinityInvariant == AffinitySpec => []AffinityInv
<1> QED
  BY AffinityInitInv, AffinityStepInv, PTL DEF AffinitySpec

\* A thread always has an online CPU to run on, and no call reaches the system call
\* with a mask it could not build, for all registries, id widths and online CPUs.
THEOREM AffinityTypeCorrect == AffinitySpec => []AffinityTypeOK
<1> QED
  BY AffinityInvariant, PTL DEF AffinityInv

\* No interleaving of calls and device switches pins a thread to CPUs of two tables,
\* or to a CPU that no table lists.
THEOREM PinsToOneTable == AffinitySpec => []OneTable
<1> QED
  BY AffinityInvariant, PTL DEF AffinityInv
================================================================================
