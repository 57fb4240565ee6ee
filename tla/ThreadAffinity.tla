---------------------------- MODULE ThreadAffinity ----------------------------
(***************************************************************************)
(* Pinning threads to CPU clusters (src/src/thread_affinity.cc).           *)
(*                                                                         *)
(* A mask is the set of its CPU ids.  A call has two steps: it builds its  *)
(* mask from the active device's table, then it issues the system call.    *)
(* Other threads may pin the same thread, or switch the active device, in  *)
(* between.  The kernel is external: it refuses a mask without an online   *)
(* CPU and keeps the online part of any other.                             *)
(***************************************************************************)
EXTENDS DeviceConfig

CONSTANTS
  Thread,             \* the threads of the process; each may pin any other
  OnlineCpu,          \* the CPUs the kernel runs threads on
  kMaxSupportedCpuId, \* 63: the mask is a uint64_t
  Gone,               \* thread ids that name no thread any more
  NoThread

ASSUME AffinityAssumption ==
  /\ OnlineCpu \subseteq Nat /\ OnlineCpu # {}
  /\ kMaxSupportedCpuId \in Nat
  /\ Gone \subseteq Thread
  /\ NoThread \notin Thread

VARIABLES
  affinity,  \* the CPUs each thread may run on
  call       \* the call each thread is making

avars == <<g_active_device, affinity, call>>

NotCalling == [pc |-> "idle", op |-> "none", tid |-> NoThread, mask |-> {}, ok |-> TRUE]

AffinityReturns(op, tid, result) ==
  [NotCalling EXCEPT !.op = op, !.tid = tid, !.ok = result]

AffinityInit ==
  /\ DeviceInit
  /\ affinity = [t \in Thread |-> OnlineCpu]
  /\ call = [t \in Thread |-> NotCalling]

FindCluster(cluster) ==
  SelectInSeq(GetDeviceConfig.clusters, LAMBDA m : m.cluster = cluster)

\* Mutant: the bound is the width of the mask, not the highest bit.
FitsWidth(map) == \A j \in DOMAIN map.cpu_ids : map.cpu_ids[j] <= kMaxSupportedCpuId + 1

\* BuildMaskForCluster refuses an id beyond the mask: 1 << id would wrap.
Fits(map) == \A j \in DOMAIN map.cpu_ids : map.cpu_ids[j] <= kMaxSupportedCpuId

Mask(map) ==
  {map.cpu_ids[j] % (kMaxSupportedCpuId + 1) : j \in DOMAIN map.cpu_ids}

\* Mutant: the result of BuildMaskForCluster is ignored.
BuildAnyMask(self, op, tid, maps) ==
  /\ call' = [call EXCEPT ![self] =
       [pc |-> "apply", op |-> op, tid |-> tid,
        mask |-> UNION {Mask(m) : m \in maps}, ok |-> \A m \in maps : Fits(m)]]
  /\ UNCHANGED <<g_active_device, affinity>>

\* The call of thread self goes on to the system call with the union of the
\* masks of these clusters, or returns false when one of them does not fit.
BuildMask(self, op, tid, maps) ==
  /\ \/ /\ \A m \in maps : Fits(m)
        /\ call' = [call EXCEPT ![self] =
             [pc |-> "apply", op |-> op, tid |-> tid,
              mask |-> UNION {Mask(m) : m \in maps}, ok |-> TRUE]]
     \/ /\ \E m \in maps : ~Fits(m)
        /\ call' = [call EXCEPT ![self] = AffinityReturns(op, tid, FALSE)]
  /\ UNCHANGED <<g_active_device, affinity>>

SetThreadAffinity(self, cluster, tid) ==
  LET k == FindCluster(cluster)
  IN  /\ call[self].pc = "idle"
      /\ \/ k # 0 /\ BuildMask(self, "pin", tid, {GetDeviceConfig.clusters[k]})
         \/ /\ k = 0
            /\ call' = [call EXCEPT ![self] = AffinityReturns("pin", tid, FALSE)]
            /\ UNCHANGED <<g_active_device, affinity>>

\* All clusters of the device, not the affinity the thread had before.
ResetThreadAffinity(self, tid) ==
  LET clusters == GetDeviceConfig.clusters
  IN  /\ call[self].pc = "idle"
      /\ \/ clusters # <<>> /\ BuildMask(self, "reset", tid, ToSet(clusters))
         \/ /\ clusters = <<>>
            /\ call' = [call EXCEPT ![self] = AffinityReturns("reset", tid, FALSE)]
            /\ UNCHANGED <<g_active_device, affinity>>

\* The sched_setaffinity system call of thread self.
ApplyMask(self) ==
  LET c == call[self]
  IN  /\ c.pc = "apply"
      /\ \/ /\ c.tid \notin Gone /\ c.mask \cap OnlineCpu # {}
            /\ affinity' = [affinity EXCEPT ![c.tid] = c.mask \cap OnlineCpu]
            /\ call' = [call EXCEPT ![self] = AffinityReturns(c.op, c.tid, TRUE)]
         \/ /\ c.tid \in Gone \/ c.mask \cap OnlineCpu = {}
            /\ call' = [call EXCEPT ![self] = AffinityReturns(c.op, c.tid, FALSE)]
            /\ UNCHANGED affinity
      /\ UNCHANGED g_active_device

\* A caller retargets the library, possibly while another thread is in a call.
Retarget(device) ==
  /\ ActivateDevice(device)
  /\ UNCHANGED <<affinity, call>>

AffinityNext ==
  \/ \E self \in Thread \ Gone, tid \in Thread :
       \/ \E cluster \in CpuCluster : SetThreadAffinity(self, cluster, tid)
       \/ ResetThreadAffinity(self, tid)
  \/ \E self \in Thread : ApplyMask(self)
  \/ \E device \in Device : Retarget(device)

AffinitySpec == AffinityInit /\ [][AffinityNext]_avars

-------------------------------------------------------------------------------
\* Types.  A call reaches the system call only with a mask it could build.
AffinityTypeOK ==
  /\ g_active_device \in Device
  /\ affinity \in [Thread -> (SUBSET OnlineCpu) \ {{}}]
  /\ call \in [Thread -> [pc : {"idle", "apply"}, op : {"none", "pin", "reset"},
                         tid : Thread \cup {NoThread},
                         mask : SUBSET (0..kMaxSupportedCpuId), ok : BOOLEAN]]
  /\ \A t \in Thread : call[t].pc = "apply" => call[t].ok

Cpus(map) == {map.cpu_ids[j] : j \in DOMAIN map.cpu_ids}

Clusters(k) == ToSet(kDeviceRegistry[k].config.clusters)

\* However calls and device switches interleave, a thread runs where the kernel
\* put it, or on the online CPUs of one cluster or of all clusters of one single
\* device: never on a CPU no table lists, never on a mixture of two tables.
OneTable ==
  \A t \in Thread :
    \/ affinity[t] = OnlineCpu
    \/ \E k \in DOMAIN kDeviceRegistry :
         \/ \E m \in Clusters(k) : affinity[t] = Cpus(m) \cap OnlineCpu
         \/ affinity[t] = (UNION {Cpus(m) : m \in Clusters(k)}) \cap OnlineCpu

\* A call in progress carries the CPUs of one table, whatever device is active now.
CallOneTable ==
  \A t \in Thread : call[t].pc = "apply" =>
    \E k \in DOMAIN kDeviceRegistry :
      \/ \E m \in Clusters(k) : call[t].mask = Cpus(m)
      \/ call[t].mask = UNION {Cpus(m) : m \in Clusters(k)}

\* The inductive invariant.
AffinityInv == AffinityTypeOK /\ ~GetDeviceConfigAborts /\ CallOneTable /\ OneTable
================================================================================
