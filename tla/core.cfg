SPECIFICATION FairHSpec
CONSTANTS
  NoPath = NoPath
  cpu_min = cpu_min
  cpu_max = cpu_max
  gpu_max = gpu_max
  knob = knob
  dev_a = dev_a
  dev_b = dev_b
  dev_x = dev_x
  soc_a = soc_a
  soc_b = soc_b
  soc_x = soc_x
  power_save = power_save
  performance = performance
  boost = boost
  latency = latency
  hint = hint
  big = big
  Path <- MCPath
  Device = {dev_a, dev_b, dev_x}
  SocName = {soc_a, soc_b, soc_x}
  FrequencyMode = {power_save, performance, boost}
  TunableName = {latency, hint}
  CpuCluster = {big}
  CustomId = {7, 8}
  kDeviceRegistry <- MCRegistry
  KernelRail <- MCKernelRail
  InitSysfs <- MCInitSysfs
  Faulty <- MCPath
INVARIANTS
  TypeOK
  NeverAborts
  Recoverable
  RestoreExact
  AppliedExact
  WritesOrdered
PROPERTIES
  CallsReturn
  Refines
