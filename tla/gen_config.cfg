SPECIFICATION GenSpec
CONSTANTS
  soc_a = soc_a
  soc_b = soc_b
  raw_a = raw_a
  raw_b = raw_b
  raw_sign = raw_sign
  NoPath = NoPath
  NoName = NoName
  NoPhone = NoPhone
  NoSoc = NoSoc
  NoRail = NoRail
  Torn = Torn
  Path = {0, 1, 2, 3, 4, 5, 6, 7, 8, 9, 10, 11, 12, 13, 14, 15, 16, 17}
  Device = {}
  SocName = {soc_a, soc_b}
  FrequencyMode = {"power_save", "performance", "boost"}
  TunableName = {"SCHED_COMMON_TARGET_LATENCY", "MEM_MO_SCEN_ID_CUSTOMIZED"}
  CpuCluster = {"little", "mid", "big", "prime"}
  RawName = {raw_a, raw_b, raw_sign}
  Sanitised <- MCSanitised
  Phone <- MCPhone
  SocOrder <- MCSocOrder
  KernelRail <- MCKernelRail
INVARIANTS
  GenTypeOK
  EmittedWellFormed
  IndexPicked
  ClustersMatchRails
PROPERTY
  RegistryComplete
