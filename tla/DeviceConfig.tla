----------------------------- MODULE DeviceConfig -----------------------------
(***************************************************************************)
(* The compiled-in device registry and the active device                   *)
(* (src/src/device_config.cc).  Tables are searched from the front.        *)
(***************************************************************************)
EXTENDS DeviceTypes, SequencesExt

CONSTANT kDeviceRegistry  \* sequence of DeviceRegistryEntry

ASSUME RegistryAssumption ==
  kDeviceRegistry \in Seq(DeviceRegistryEntry) /\ kDeviceRegistry # <<>>

VARIABLE g_active_device

\* The index of the first entry of the device, 0 when there is none.
FindEntry(device) == SelectInSeq(kDeviceRegistry, LAMBDA e : e.device = device)

FindName(soc_name) == SelectInSeq(kDeviceRegistry, LAMBDA e : e.soc_name = soc_name)

DeviceInit == g_active_device = kDeviceRegistry[1].device

\* Mutant: the device is taken without a look at the registry.
ActivateAnyDevice(device) == g_active_device' = device

\* The two setters return true; they return false and change nothing when the
\* registry has no such entry.
ActivateDevice(device) ==
  /\ FindEntry(device) # 0
  /\ g_active_device' = device

ActivateDeviceByName(soc_name) ==
  /\ FindName(soc_name) # 0
  /\ g_active_device' = kDeviceRegistry[FindName(soc_name)].device

\* GetDeviceConfig() aborts the process when the device is not registered.
GetDeviceConfigAborts == FindEntry(g_active_device) = 0

GetDeviceConfig == kDeviceRegistry[FindEntry(g_active_device)].config
==============================================================================
