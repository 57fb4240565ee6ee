SPECIFICATION HSpec
CONSTANTS
  NoPath = NoPath
  Path <- MCPath
  Device = {"kS5E9955"}
  SocName = {"s5e9955"}
  FrequencyMode = {"power_save", "performance", "boost"}
  TunableName = {"SCHED_COMMON_TARGET_LATENCY", "MEM_MO_SCEN_ID_CUSTOMIZED"}
  CpuCluster = {"little", "mid", "big", "prime"}
  CustomId = {0}
  kDeviceRegistry <- Registry
  KernelRail <- MCKernelRail
  InitSysfs <- MCInitSysfs
  Faulty = {"cpu_little_max"}
INVARIANTS
  RestoreExact
  WritesOrdered
  HealthyRestored
