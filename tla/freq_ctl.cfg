SPECIFICATION CtlSpec
CONSTANTS
  cpu_min = cpu_min
  cpu_max = cpu_max
  gpu_min = gpu_min
  gpu_max = gpu_max
  knob = knob
  lost = lost
  dev_a = dev_a
  dev_b = dev_b
  soc_a = soc_a
  soc_b = soc_b
  soc_x = soc_x
  power_save = power_save
  performance = performance
  boost = boost
  latency = latency
  little = little
  big = big
  self = self
  NoPath = NoPath
  NoSoc = NoSoc
  NoThread = NoThread
  Path <- MCPath
  Device = {dev_a, dev_b}
  SocName = {soc_a, soc_b, soc_x}
  FrequencyMode = {power_save, performance, boost}
  TunableName = {latency}
  CpuCluster = {little, big}
  CustomId = {7, 8, 9}
  kDeviceRegistry <- MCRegistry
  KernelRail <- MCKernelRail
  InitSysfs <- MCInitSysfs
  Faulty = {gpu_max, lost}
  Missing = {lost}
  Width = 16
  Invocation <- MCInvocation
  Thread = {self}
  Gone = {}
  OnlineCpu = {0, 1}
  kMaxSupportedCpuId = 7
INVARIANTS
  CycleRestores
  HealthyRestored
PROPERTY
  ProcessEnds
