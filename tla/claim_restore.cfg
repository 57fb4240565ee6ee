SPECIFICATION HSpec
CONSTANTS
  NoPath = NoPath
  cpu_min = cpu_min
  cpu_max = cpu_max
  dev_a = dev_a
  soc_a = soc_a
  power_save = power_save
  performance = performance
  Path <- MCPath
  Device = {dev_a}
  SocName = {soc_a}
  FrequencyMode = {power_save, performance}
  TunableName = {}
  CpuCluster = {}
  CustomId = {}
  kDeviceRegistry <- MCRegistry
  KernelRail <- MCKernelRail
  InitSysfs <- MCInitSysfs
  Faulty = {}
INVARIANT
  RestoresPreviousValues
