SPECIFICATION CSpec
CONSTANTS
  NoPath = NoPath
  cpu_min = cpu_min
  cpu_max = cpu_max
  gpu_max = gpu_max
  knob = knob
  dev_a = dev_a
  soc_a = soc_a
  power_save = power_save
  performance = performance
  latency = latency
  Path <- MCPath
  Device = {dev_a}
  SocName = {soc_a}
  FrequencyMode = {power_save, performance}
  TunableName = {latency}
  CpuCluster = {}
  CustomId = {7}
  Reopen = FALSE
  kDeviceRegistry <- MCRegistry
  KernelRail <- MCKernelRail
  InitSysfs <- MCInitSysfs
  Faulty = {}
INVARIANTS
  NestedRestores
  NestedApplies
PROPERTIES
  RefusalExplained
