SPECIFICATION AffinitySpec
CONSTANTS
  NoPath = NoPath
  NoThread = NoThread
  dev_a = dev_a
  dev_b = dev_b
  dev_x = dev_x
  soc_a = soc_a
  soc_b = soc_b
  little = little
  mid = mid
  big = big
  t1 = t1
  t2 = t2
  t3 = t3
  Path = {}
  Device = {dev_a, dev_b, dev_x}
  SocName = {soc_a, soc_b}
  FrequencyMode = {}
  TunableName = {}
  CpuCluster = {little, mid, big}
  kDeviceRegistry <- MCRegistry
  Thread = {t1, t2, t3}
  OnlineCpu = {0, 1, 3, 4}
  kMaxSupportedCpuId = 3
  Gone = {t3}
INVARIANTS
  AffinityTypeOK
  OneTable
