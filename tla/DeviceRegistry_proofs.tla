------------------------ MODULE DeviceRegistry_proofs ------------------------
(***************************************************************************)
(* Proofs about DeviceRegistry, for any number of callers, devices and     *)
(* objects.                                                                *)
(***************************************************************************)
EXTENDS DeviceRegistry, TLAPS

\* a releaseDevice() of d has deleted the object and has not updated the list
Releasing(d) == \E c \in Callers : pc[c] = "remove" /\ device[c] = d

\* a device is entered, whatever its kind
Detect(c, d) == DetectMtpDevice(c, d) \/ DetectMscDevice(c, d)

\* What makes the properties inductive: while a scan detects, the registry holds
\* only what this scan has found, so that no entry is overwritten; the list is
\* empty until the scan reports, and what it will report exists already.
ScanInv ==
  /\ \A c \in Callers : pc[c] \in {"mtp", "msc"} =>
       \A d \in Devices : listDevices[d] # NULL => d \in report[c]
  /\ \A c \in Callers : pc[c] \in {"clear", "mtp", "msc"} => deviceList = {}
  /\ \A c \in Callers : pc[c] = "add" =>
       \A d \in report[c] : listDevices[d] # NULL \/ Releasing(d)

IInv == TypeOK /\ RegistryOwnsObjects /\ ScanInv /\ ListedDevicesExist

\* The initial states satisfy the inductive invariant.
LEMMA InitInv == Init => IInv
  <1> SUFFICES ASSUME Init PROVE IInv
    OBVIOUS
  <1> USE RegistryAssumption DEF RegistryAssumption, Init
  <1>1. TypeOK
    BY DEF TypeOK
  <1>2. RegistryOwnsObjects
    BY DEF RegistryOwnsObjects
  <1>3. ScanInv /\ ListedDevicesExist
    BY DEF ScanInv, ListedDevicesExist
  <1> QED
    BY <1>1, <1>2, <1>3 DEF IInv

\* Every step preserves the types.
LEMMA TypeStep == TypeOK /\ [Next]_vars => TypeOK'
  <1> SUFFICES ASSUME TypeOK, [Next]_vars PROVE TypeOK'
    OBVIOUS
  <1> USE RegistryAssumption
      DEF RegistryAssumption, native, java, Goto, NULL, Objects
  <1>1. ASSUME NEW c \in Callers, ScanDevices(c) PROVE TypeOK'
    BY <1>1 DEF ScanDevices, TypeOK
  <1>2. ASSUME NEW c \in Callers, ClearDevices(c) PROVE TypeOK'
    BY <1>2 DEF ClearDevices, TypeOK
  <1>3. ASSUME NEW c \in Callers, FillDevicesInfo(c) PROVE TypeOK'
    BY <1>3 DEF FillDevicesInfo, TypeOK
  <1>4. ASSUME NEW c \in Callers, ScanReturns(c) PROVE TypeOK'
    BY <1>4 DEF ScanReturns, TypeOK
  <1>5. ASSUME NEW c \in Callers, RemoveDevice(c) PROVE TypeOK'
    BY <1>5 DEF RemoveDevice, TypeOK
  <1>6. ASSUME NEW c \in Callers, NEW d \in Devices, Detect(c, d) PROVE TypeOK'
    <2>1. created' \in 1 .. MaxObjects
      BY <1>6 DEF Detect, DetectMtpDevice, DetectMscDevice, EnterDevice, TypeOK
    <2> QED
      <3>1. EnterDevice(c, d) /\ pc[c] \in {"mtp", "msc"}
        BY <1>6 DEF Detect, DetectMtpDevice, DetectMscDevice
      <3>2. created \in Nat /\ created' = created + 1
        BY <3>1 DEF EnterDevice, TypeOK
      <3>3. alive' \subseteq 1 .. created'
        BY <3>1, <3>2 DEF EnterDevice, TypeOK
      <3>4. /\ listDevices' \in [Devices -> Objects \cup {NULL}]
            /\ report' \in [Callers -> SUBSET Devices]
        BY <2>1, <3>1 DEF EnterDevice, TypeOK
      <3>5. created' \in 0 .. MaxObjects /\ UNCHANGED <<java, pc, device>>
        BY <2>1, <3>1 DEF EnterDevice
      <3> QED
        BY <3>3, <3>4, <3>5 DEF TypeOK
  <1>7. ASSUME NEW c \in Callers, NEW d \in Devices, AddDevice(c, d)
        PROVE  TypeOK'
    BY <1>7 DEF AddDevice, TypeOK
  <1>8. ASSUME NEW c \in Callers, NEW d \in Devices, ReleaseDevice(c, d)
        PROVE  TypeOK'
    BY <1>8 DEF ReleaseDevice, TypeOK
  <1>9. ASSUME NEW c \in Callers, MtpDetected(c) PROVE TypeOK'
    BY <1>9 DEF MtpDetected, TypeOK
  <1>10. CASE UNCHANGED vars
    BY <1>10 DEF vars, TypeOK
  <1> QED
    BY <1>1, <1>2, <1>3, <1>4, <1>5, <1>6, <1>7, <1>8, <1>9, <1>10
    DEF Next, Detect

\* Every step preserves that the registry owns its objects.
LEMMA OwnStep ==
  TypeOK /\ ScanInv /\ RegistryOwnsObjects /\ [Next]_vars
    => RegistryOwnsObjects'
  <1> SUFFICES ASSUME TypeOK, ScanInv, RegistryOwnsObjects, [Next]_vars
               PROVE  RegistryOwnsObjects'
    OBVIOUS
  <1> USE RegistryAssumption DEF RegistryAssumption, native, java, Goto, NULL
  <1>1. ASSUME NEW c \in Callers, ClearDevices(c) PROVE RegistryOwnsObjects'
    BY <1>1 DEF ClearDevices, RegistryOwnsObjects
  <1>2. ASSUME NEW c \in Callers, NEW d \in Devices, Detect(c, d)
        PROVE  RegistryOwnsObjects'
    <2>1. listDevices[d] = NULL
      BY <1>2 DEF Detect, DetectMtpDevice, DetectMscDevice, EnterDevice, ScanInv
    <2>2. created' \notin alive /\ created' # NULL
      BY <1>2 DEF Detect, DetectMtpDevice, DetectMscDevice, EnterDevice, TypeOK
    <2>3. /\ alive' = alive \cup {created'}
          /\ listDevices' = [listDevices EXCEPT ![d] = created']
      BY <1>2 DEF Detect, DetectMtpDevice, DetectMscDevice, EnterDevice
    <2> QED
      BY <2>1, <2>2, <2>3 DEF RegistryOwnsObjects, TypeOK
  <1>3. ASSUME NEW c \in Callers, NEW d \in Devices, ReleaseDevice(c, d)
        PROVE  RegistryOwnsObjects'
    BY <1>3 DEF ReleaseDevice, RegistryOwnsObjects, TypeOK
  <1>4. CASE UNCHANGED native
    BY <1>4 DEF RegistryOwnsObjects
  <1> QED
    BY <1>1, <1>2, <1>3, <1>4
    DEF Next, Detect, vars, ScanDevices, MtpDetected,
        FillDevicesInfo, ScanReturns, RemoveDevice, AddDevice

\* Every step preserves what the scan relies on and the listed devices.
LEMMA ScanStep ==
  TypeOK /\ ScanInv /\ ListedDevicesExist /\ [Next]_vars
    => ScanInv' /\ ListedDevicesExist'
  <1> SUFFICES ASSUME TypeOK, ScanInv, ListedDevicesExist, [Next]_vars
               PROVE  ScanInv' /\ ListedDevicesExist'
    OBVIOUS
  <1> USE RegistryAssumption DEF RegistryAssumption, native, java, Goto, NULL,
          ScanInv, ListedDevicesExist, Releasing, TypeOK
  <1>1. ASSUME NEW c \in Callers, ScanDevices(c)
        PROVE  ScanInv' /\ ListedDevicesExist'
    BY <1>1 DEF ScanDevices
  <1>2. ASSUME NEW c \in Callers, ClearDevices(c)
        PROVE  ScanInv' /\ ListedDevicesExist'
    BY <1>2 DEF ClearDevices
  <1>3. ASSUME NEW c \in Callers, FillDevicesInfo(c)
        PROVE  ScanInv' /\ ListedDevicesExist'
    BY <1>3 DEF FillDevicesInfo
  <1>4. ASSUME NEW c \in Callers, ScanReturns(c)
        PROVE  ScanInv' /\ ListedDevicesExist'
    BY <1>4 DEF ScanReturns
  <1>5. ASSUME NEW c \in Callers, RemoveDevice(c)
        PROVE  ScanInv' /\ ListedDevicesExist'
    BY <1>5 DEF RemoveDevice
  <1>6. ASSUME NEW c \in Callers, NEW d \in Devices, Detect(c, d)
        PROVE  ScanInv' /\ ListedDevicesExist'
    BY <1>6 DEF Detect, DetectMtpDevice, DetectMscDevice, EnterDevice
  <1>7. ASSUME NEW c \in Callers, NEW d \in Devices, AddDevice(c, d)
        PROVE  ScanInv' /\ ListedDevicesExist'
    BY <1>7 DEF AddDevice
  <1>8. ASSUME NEW c \in Callers, NEW d \in Devices, ReleaseDevice(c, d)
        PROVE  ScanInv' /\ ListedDevicesExist'
    BY <1>8 DEF ReleaseDevice
  <1>9. ASSUME NEW c \in Callers, MtpDetected(c)
        PROVE  ScanInv' /\ ListedDevicesExist'
    BY <1>9 DEF MtpDetected
  <1>10. CASE UNCHANGED vars
    BY <1>10 DEF vars
  <1> QED
    BY <1>1, <1>2, <1>3, <1>4, <1>5, <1>6, <1>7, <1>8, <1>9, <1>10
    DEF Next, Detect

\* The invariant holds throughout.
LEMMA Invariance == Spec => []IInv
  <1>1. IInv /\ [Next]_vars => IInv'
    BY TypeStep, OwnStep, ScanStep DEF IInv
  <1> QED
    BY <1>1, InitInv, PTL DEF Spec

\* The variables keep their types; only the thread inside scanDevices() is past
\* its monitor.
THEOREM RegistryTypeCorrect == Spec => []TypeOK
  <1>1. IInv => TypeOK
    BY DEF IInv
  <1> QED
    BY <1>1, Invariance, PTL

\* No object leaks, no entry dangles.
THEOREM RegistryOwnership == Spec => []RegistryOwnsObjects
  <1>1. IInv => RegistryOwnsObjects
    BY DEF IInv
  <1> QED
    BY <1>1, Invariance, PTL

\* A listed device exists on the native side or is being taken off the list.
THEOREM ListedExist == Spec => []ListedDevicesExist
  <1>1. IInv => ListedDevicesExist
    BY DEF IInv
  <1> QED
    BY <1>1, Invariance, PTL
=============================================================================
