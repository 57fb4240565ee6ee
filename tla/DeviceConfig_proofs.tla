-------------------------- MODULE DeviceConfig_proofs --------------------------
(***************************************************************************)
(* What a search of the registry returns.                                  *)
(***************************************************************************)
EXTENDS DeviceConfig, WellFoundedInduction, TLAPS

\* Every set of numbers has a least one.
LEMMA MinOfNats ==
  ASSUME NEW S \in SUBSET Nat, S # {}
  PROVE  Min(S) \in S
<1> DEFINE R == {ss \in Nat \X Nat : ss[1] < ss[2]}
<1>1. IsWellFoundedOn(R, Nat)
  BY NatLessThanWellFounded DEF OpToRel
<1> HIDE DEF R
<1>2. PICK x \in S : \A y \in S : ~(<<y, x>> \in R)
  BY <1>1, WFMin
<1>3. \A y \in S : ~(y < x)
  BY <1>2 DEF R
<1>4. \A y \in S : x <= y
  BY <1>3
<1> QED
  BY <1>4 DEF Min

\* A search that finds something returns an index of the table that satisfies the test.
LEMMA SelectedIndex ==
  ASSUME NEW T, NEW s \in Seq(T), NEW I, I \subseteq 1..Len(s),
         NEW k, k = (IF I # {} THEN Min(I) ELSE 0), k # 0
  PROVE  k \in DOMAIN s /\ s[k] \in T /\ k \in I
<1>1. I # {} /\ I \in SUBSET Nat
  OBVIOUS
<1>2. k \in I
  BY <1>1, MinOfNats
<1> QED
  BY <1>2

\* FindEntry and FindName are searches of the registry.
LEMMA FindEntryType ==
  ASSUME NEW d, FindEntry(d) # 0
  PROVE  /\ FindEntry(d) \in DOMAIN kDeviceRegistry
         /\ kDeviceRegistry[FindEntry(d)] \in DeviceRegistryEntry
         /\ kDeviceRegistry[FindEntry(d)].device = d
<1> DEFINE I == {i \in 1..Len(kDeviceRegistry) : kDeviceRegistry[i].device = d}
<1>1. FindEntry(d) = IF I # {} THEN Min(I) ELSE 0
  BY DEF FindEntry, SelectInSeq
<1>2. I \subseteq 1..Len(kDeviceRegistry)
  OBVIOUS
<1>3. /\ FindEntry(d) \in DOMAIN kDeviceRegistry
      /\ kDeviceRegistry[FindEntry(d)] \in DeviceRegistryEntry
      /\ FindEntry(d) \in I
  <2> HIDE DEF I
  <2> QED  BY <1>1, <1>2, SelectedIndex, RegistryAssumption
<1> QED
  BY <1>3

LEMMA FindNameType ==
  ASSUME NEW n, FindName(n) # 0
  PROVE  /\ FindName(n) \in DOMAIN kDeviceRegistry
         /\ kDeviceRegistry[FindName(n)] \in DeviceRegistryEntry
<1> DEFINE I == {i \in 1..Len(kDeviceRegistry) : kDeviceRegistry[i].soc_name = n}
<1>1. FindName(n) = IF I # {} THEN Min(I) ELSE 0
  BY DEF FindName, SelectInSeq
<1>2. I \subseteq 1..Len(kDeviceRegistry)
  OBVIOUS
<1> HIDE DEF I
<1> QED
  BY <1>1, <1>2, SelectedIndex, RegistryAssumption

\* A device that has an entry is found.
LEMMA RegisteredFound ==
  ASSUME NEW e \in DOMAIN kDeviceRegistry
  PROVE  FindEntry(kDeviceRegistry[e].device) # 0
<1> DEFINE I == {i \in 1..Len(kDeviceRegistry) :
                   kDeviceRegistry[i].device = kDeviceRegistry[e].device}
<1>1. FindEntry(kDeviceRegistry[e].device) = IF I # {} THEN Min(I) ELSE 0
  BY DEF FindEntry, SelectInSeq
<1>2. I \in SUBSET Nat /\ e \in I /\ 0 \notin I
  BY RegistryAssumption
<1> HIDE DEF I
<1> QED
  BY <1>1, <1>2, MinOfNats

\* The setters take registered devices only, and the first entry is one.
LEMMA ActivatedFound ==
  ASSUME \/ \E device \in Device : ActivateDevice(device)
         \/ \E soc_name \in SocName : ActivateDeviceByName(soc_name)
  PROVE  g_active_device' \in Device /\ ~GetDeviceConfigAborts'
<1>1. CASE \E device \in Device : ActivateDevice(device)
  BY <1>1 DEF ActivateDevice, GetDeviceConfigAborts
<1>2. CASE \E soc_name \in SocName : ActivateDeviceByName(soc_name)
  <2>1. PICK soc_name \in SocName : ActivateDeviceByName(soc_name)
    BY <1>2
  <2>2. /\ FindName(soc_name) \in DOMAIN kDeviceRegistry
        /\ kDeviceRegistry[FindName(soc_name)].device \in Device
    BY <2>1, FindNameType DEF ActivateDeviceByName, DeviceRegistryEntry
  <2> QED
    BY <2>1, <2>2, RegisteredFound DEF ActivateDeviceByName, GetDeviceConfigAborts
<1> QED
  BY <1>1, <1>2

\* The initial device has an entry, so GetDeviceConfig() does not abort on it.
LEMMA FirstFound ==
  ASSUME DeviceInit
  PROVE  g_active_device \in Device /\ ~GetDeviceConfigAborts
<1>1. 1 \in DOMAIN kDeviceRegistry /\ kDeviceRegistry[1] \in DeviceRegistryEntry
  BY RegistryAssumption
<1> QED
  BY <1>1, RegisteredFound DEF DeviceInit, GetDeviceConfigAborts, DeviceRegistryEntry

\* The table of an active device that is found is a table of the registry.
LEMMA ActiveConfig ==
  ASSUME ~GetDeviceConfigAborts
  PROVE  /\ FindEntry(g_active_device) \in DOMAIN kDeviceRegistry
         /\ GetDeviceConfig \in Config
BY FindEntryType DEF GetDeviceConfigAborts, GetDeviceConfig, DeviceRegistryEntry
================================================================================
